---- MODULE Spec2Model ----
(***************************************************************************)
(* Session and child-process lifecycle of the Ouster lidar MCP server.     *)
(*                                                                         *)
(* The two module-level dictionaries of app_setup.py (scan_sources and     *)
(* visualization_processes) are shared by the tool handlers, which are     *)
(* coroutines: a handler runs without interruption from one await to the   *)
(* next, and at an await any other handler may run.  Each action below is  *)
(* the code of one handler between two consecutive awaits.  Consecutive    *)
(* awaits with no statement between them are one suspension point.         *)
(*                                                                         *)
(* The SDK, the operating system and the transport are the environment:    *)
(* open_source, metadata, close, Popen, the signals and the ctx callbacks  *)
(* succeed or raise nondeterministically.                                  *)
(***************************************************************************)
EXTENDS Integers, Naturals, FiniteSets, Sequences

\* ------------------------------------------------------------------ bounds
NumTasks == 2
NumAddrs == 2
MaxHandles == 2
MaxPids == 2
MaxCalls == 3
MaxSerialCalls == 4
MaxRecords == 1   \* items of a structured discovery output
MaxLines == 2     \* lines of a line-oriented discovery output
MaxScans == 2     \* largest num_scans a call asks for
MaxFrames == 3    \* most frames a source yields
MaxChildren == 2  \* child processes of a visualizer

Tasks == 1..NumTasks
\* the task that serves the calls when they are served one at a time
SerialTask == CHOOSE t \in Tasks : \A u \in Tasks : t <= u
Addrs == 1..NumAddrs
Handles == 1..MaxHandles
Pids == 1..MaxPids
\* "no handle", "no pid", "key absent from the dictionary"
None == 0
\* neither sys.exit() nor os._exit() has been called
NoCode == 2

VARIABLES
    scan_sources,             \* app_setup.scan_sources: address -> handle, None when absent
    visualization_processes,  \* app_setup.visualization_processes: address -> pid, None when absent
    task,                     \* the in-flight invocation of each transport task (used: the
                              \* handles a query has read an attribute of or iterated)
    calls,                    \* number of tool calls dispatched so far (at most MaxCalls, or
                              \* MaxSerialCalls in a run of calls served one at a time)
    pre,                      \* what a call dispatched alone found when it started
    last,                     \* the call answered before this one, in a run of calls served one at a time
    nh,                       \* number of handles open_source has returned
    hClose,                   \* handle -> number of close() calls made on it (2 = two or more)
    hReg,                     \* handle -> it has been inserted in scan_sources
    hFail,                    \* handles on which a close() call has raised
    np,                       \* number of subprocesses Popen has spawned
    pAddr,                    \* pid -> address its visualizer was started for
    alive,                    \* pid -> the process exists
    signalled,                \* pids a termination signal (SIGTERM or SIGKILL) was attempted on
    psutil,                   \* "import psutil" succeeds in this installation
    phase,                    \* position of main(): serving, finally, atexit, exited
    cleanups,                 \* number of cleanup_resources() runs
    cleaned,                  \* what the last cleanup_resources() run found and which calls raised
    cause,                    \* how the serving ended: signal, returned, interrupted, failed
    exitCode                  \* argument of the last sys.exit() or os._exit() call (NoCode before)

vars == <<scan_sources, visualization_processes, task, calls, pre, last, nh, hClose, hReg, hFail,
          np, pAddr, alive, signalled, psutil, phase, cleanups, cleaned, cause, exitCode>>

handleVars == <<nh, hClose, hReg, hFail>>
procVars == <<np, pAddr, alive, signalled>>
mainVars == <<calls, pre, last, psutil, phase, cleanups, cleaned, cause, exitCode>>

\* ------------------------------------------------------------------ tasks
Idle == [op |-> "none", addr |-> None, pc |-> "idle", loc |-> None, status |-> "none",
         err |-> "none", res |-> None, lst |-> {}, used |-> {}]

Ops == {"connect", "disconnect", "start_viz", "stop_viz", "list_viz"}

\* first suspension point of each handler: the awaits that open its try block
FirstPc(op) ==
    CASE op = "connect" -> "c_start"
      [] op = "disconnect" -> "d_start"
      [] op = "start_viz" -> "v_start"
      [] op = "stop_viz" -> "s_start"
      [] op = "list_viz" -> "l_start"

InFlight(t) == task[t].pc \notin {"idle", "done"}
Done(t) == task[t].pc = "done"
Serving == phase = "serving"

\* the handler returns: the result record is complete
Finish(t, status, err, res) ==
    task' = [task EXCEPT ![t].pc = "done", ![t].status = status, ![t].err = err,
                         ![t].res = res]

Goto(t, pc) == task' = [task EXCEPT ![t].pc = pc]

NoSnapshot == [ss |-> [a \in Addrs |-> None], vp |-> [a \in Addrs |-> None], nh |-> 0,
               np |-> 0, alive |-> {}, hc |-> [h \in Handles |-> 0], sig |-> {}]
Snapshot == [ss |-> scan_sources, vp |-> visualization_processes, nh |-> nh, np |-> np,
             alive |-> {p \in Pids : alive[p]}, hc |-> hClose, sig |-> signalled]

\* no call has been answered yet
NoLast == [op |-> "none", addr |-> None, status |-> "none", had |-> FALSE]

Init ==
    /\ scan_sources = [a \in Addrs |-> None]
    /\ visualization_processes = [a \in Addrs |-> None]
    /\ task = [t \in Tasks |-> Idle]
    /\ calls = 0
    /\ pre = NoSnapshot
    /\ last = NoLast
    /\ nh = 0
    /\ hClose = [h \in Handles |-> 0]
    /\ hReg = [h \in Handles |-> FALSE]
    /\ hFail = {}
    /\ np = 0
    /\ pAddr = [p \in Pids |-> None]
    /\ alive = [p \in Pids |-> FALSE]
    /\ signalled = {}
    /\ psutil \in BOOLEAN
    /\ phase = "serving"
    /\ cleanups = 0
    /\ cleaned = [hs |-> {}, ps |-> {}, fh |-> {}, fp |-> {}]
    /\ cause = "none"
    /\ exitCode = NoCode

\* The transport dispatches a tool call to its handler, which runs up to its
\* first await (the callbacks that open its try block).
Dispatch(t) ==
    /\ Serving
    /\ task[t].pc = "idle"
    /\ \E op \in Ops, a \in Addrs :
          task' = [task EXCEPT ![t] =
                     [Idle EXCEPT !.op = op,
                                  !.addr = IF op = "list_viz" THEN None ELSE a,
                                  !.pc = FirstPc(op)]]
    /\ UNCHANGED <<scan_sources, visualization_processes, handleVars, procVars,
                   last, psutil, phase, cleanups, cleaned, cause, exitCode>>

\* a call dispatched while other calls may be in flight
Invoke(t) ==
    /\ calls < MaxCalls
    /\ calls' = calls + 1
    /\ Dispatch(t)
    /\ UNCHANGED pre

\* a call dispatched while no other call is in flight: pre records the state it
\* starts from
Call(t) ==
    /\ \A u \in Tasks : task[u].pc = "idle"
    /\ calls < MaxCalls
    /\ calls' = calls + 1
    /\ Dispatch(t)
    /\ pre' = Snapshot

\* the same for a longer run of calls, while the server keeps serving
SerialCall(t) ==
    /\ \A u \in Tasks : task[u].pc = "idle"
    /\ calls < MaxSerialCalls
    /\ calls' = calls + 1
    /\ Dispatch(t)
    /\ pre' = Snapshot

\* The response has been handed to the transport; the task is free again.
Return(t) ==
    /\ Serving
    /\ Done(t)
    /\ task' = [task EXCEPT ![t] = Idle]
    /\ pre' = NoSnapshot
    /\ UNCHANGED <<scan_sources, visualization_processes, handleVars, procVars,
                   calls, last, psutil, phase, cleanups, cleaned, cause, exitCode>>

\* The same in a run of calls served one at a time: the next call follows
\* this one, and `last` keeps what this one was and how it was answered.
SerialReturn(t) ==
    /\ Serving
    /\ Done(t)
    /\ task' = [task EXCEPT ![t] = Idle]
    /\ pre' = NoSnapshot
    /\ last' = [op |-> task[t].op, addr |-> task[t].addr, status |-> task[t].status,
                had |-> task[t].addr # None /\ pre.ss[task[t].addr] # None]
    /\ UNCHANGED <<scan_sources, visualization_processes, handleVars, procVars,
                   calls, psutil, phase, cleanups, cleaned, cause, exitCode>>

\* ------------------------------------------------------------ connect_sensor
\* the membership test left out: every call goes on to open a handle
ConnectCheckNoTest(t) ==
    /\ Serving
    /\ task[t].pc = "c_start"
    /\ Goto(t, "c_preopen")
    /\ UNCHANGED <<scan_sources, visualization_processes, handleVars, procVars, mainVars>>

\* line 37: if hostname in scan_sources
ConnectCheck(t) ==
    /\ Serving
    /\ task[t].pc = "c_start"
    /\ IF scan_sources[task[t].addr] # None
         THEN Goto(t, "c_already")
         ELSE Goto(t, "c_preopen")
    /\ UNCHANGED <<scan_sources, visualization_processes, handleVars, procVars, mainVars>>

\* lines 41-51: source = scan_sources[hostname] raises KeyError when the entry
\* has gone since line 37; the handler's except turns it into status error.
\* The metadata of a registered handle was read when it was connected (line 59)
\* and is read again from the handle without failure.
ConnectAlready(t) ==
    /\ Serving
    /\ task[t].pc = "c_already"
    /\ IF scan_sources[task[t].addr] = None
         THEN Finish(t, "error", "KeyError", None)
         ELSE Finish(t, "already_connected", "none", scan_sources[task[t].addr])
    /\ UNCHANGED <<scan_sources, visualization_processes, handleVars, procVars, mainVars>>

\* the handle is registered as soon as it is opened
ConnectOpenRegistering(t) ==
    /\ Serving
    /\ task[t].pc = "c_preopen"
    /\ \/ /\ Finish(t, "error", "open_source", None)
          /\ UNCHANGED <<handleVars, scan_sources>>
       \/ /\ nh < MaxHandles
          /\ nh' = nh + 1
          /\ task' = [task EXCEPT ![t].pc = "c_opened", ![t].loc = nh + 1]
          /\ scan_sources' = [scan_sources EXCEPT ![task[t].addr] = nh + 1]
          /\ hReg' = [hReg EXCEPT ![nh + 1] = TRUE]
          /\ UNCHANGED <<hClose, hFail>>
    /\ UNCHANGED <<visualization_processes, procVars, mainVars>>

\* line 55: source = open_source(hostname), which returns a new handle or raises
ConnectOpen(t) ==
    /\ Serving
    /\ task[t].pc = "c_preopen"
    /\ \/ /\ Finish(t, "error", "open_source", None)
          /\ UNCHANGED handleVars
       \/ /\ nh < MaxHandles
          /\ nh' = nh + 1
          /\ task' = [task EXCEPT ![t].pc = "c_opened", ![t].loc = nh + 1]
          /\ UNCHANGED <<hClose, hReg, hFail>>
    /\ UNCHANGED <<scan_sources, visualization_processes, procVars, mainVars>>

\* line 59: info = source.metadata, which may raise
ConnectMetadata(t) ==
    /\ Serving
    /\ task[t].pc = "c_opened"
    /\ \/ Finish(t, "error", "metadata", None)
       \/ Goto(t, "c_meta")
    /\ UNCHANGED <<scan_sources, visualization_processes, handleVars, procVars, mainVars>>

\* the insertion left out
ConnectStoreSkipped(t) ==
    /\ Serving
    /\ task[t].pc = "c_meta"
    /\ Goto(t, "c_stored")
    /\ UNCHANGED <<scan_sources, visualization_processes, handleVars, procVars, mainVars>>

\* line 63: scan_sources[hostname] = source
ConnectStore(t) ==
    /\ Serving
    /\ task[t].pc = "c_meta"
    /\ scan_sources' = [scan_sources EXCEPT ![task[t].addr] = task[t].loc]
    /\ hReg' = [hReg EXCEPT ![task[t].loc] = TRUE]
    /\ Goto(t, "c_stored")
    /\ UNCHANGED <<visualization_processes, nh, hClose, hFail, procVars, mainVars>>

\* lines 68-76: return status connected with the metadata of the new handle
ConnectReturn(t) ==
    /\ Serving
    /\ task[t].pc = "c_stored"
    /\ Finish(t, "connected", "none", task[t].loc)
    /\ UNCHANGED <<scan_sources, visualization_processes, handleVars, procVars, mainVars>>

\* --------------------------------------------------------- disconnect_sensor
\* lines 100-103 and 116-118: if hostname in scan_sources: source = scan_sources[hostname]
DisconnectCheck(t) ==
    /\ Serving
    /\ task[t].pc = "d_start"
    /\ IF scan_sources[task[t].addr] # None
         THEN task' = [task EXCEPT ![t].pc = "d_found", ![t].loc = scan_sources[task[t].addr]]
         ELSE Goto(t, "d_absent")
    /\ UNCHANGED <<scan_sources, visualization_processes, handleVars, procVars, mainVars>>

\* lines 105-112: source.close() inside try/except AttributeError, then
\* del scan_sources[hostname].  close() returns, raises AttributeError (passed
\* over) or raises another exception, which leaves the inner try and is caught
\* by the handler's except Exception at line 120.  del raises KeyError when the
\* entry has gone since line 100.
DisconnectClose(t) ==
    /\ Serving
    /\ task[t].pc = "d_found"
    /\ hClose' = [hClose EXCEPT ![task[t].loc] = IF @ < 2 THEN @ + 1 ELSE 2]
    /\ \E outcome \in {"ok", "AttributeError", "Exception"} :
          /\ hFail' = IF outcome = "ok" THEN hFail ELSE hFail \cup {task[t].loc}
          /\ IF outcome = "Exception"
               THEN /\ task' = [task EXCEPT ![t].pc = "d_except", ![t].err = "close"]
                    /\ UNCHANGED scan_sources
               ELSE IF scan_sources[task[t].addr] = None
                      THEN /\ task' = [task EXCEPT ![t].pc = "d_except", ![t].err = "KeyError"]
                           /\ UNCHANGED scan_sources
                      ELSE /\ scan_sources' = [scan_sources EXCEPT ![task[t].addr] = None]
                           /\ Goto(t, "d_removed")
    /\ UNCHANGED <<visualization_processes, nh, hReg, procVars, mainVars>>

\* lines 115, 119 and 123-126: the three returns of the handler
DisconnectReturn(t) ==
    /\ Serving
    /\ task[t].pc \in {"d_removed", "d_absent", "d_except"}
    /\ CASE task[t].pc = "d_removed" -> Finish(t, "disconnected", "none", None)
         [] task[t].pc = "d_absent" -> Finish(t, "not_connected", "none", None)
         [] task[t].pc = "d_except" -> Finish(t, "error", task[t].err, None)
    /\ UNCHANGED <<scan_sources, visualization_processes, handleVars, procVars, mainVars>>

\* -------------------------------------------------------- start_visualization
\* the session check of line 35 left out
StartCheckNoSession(t) ==
    LET a == task[t].addr
        pid == visualization_processes[a]
    IN  /\ Serving
        /\ task[t].pc = "v_start"
        /\ IF pid # None /\ psutil /\ alive[pid]
             THEN /\ task' = [task EXCEPT ![t].pc = "v_already", ![t].loc = pid]
                  /\ UNCHANGED visualization_processes
             ELSE /\ Goto(t, "v_prespawn")
                  /\ visualization_processes' =
                       IF pid # None /\ psutil
                         THEN [visualization_processes EXCEPT ![a] = None]
                         ELSE visualization_processes
        /\ UNCHANGED <<scan_sources, handleVars, procVars, mainVars>>

\* lines 35-59: the session check, then the check of a tracked pid.  With psutil
\* a live pid ends the call and a dead one is purged; without psutil (ImportError)
\* the handler goes on to spawn whatever the tracked pid is doing.
StartCheck(t) ==
    LET a == task[t].addr
        pid == visualization_processes[a]
    IN  /\ Serving
        /\ task[t].pc = "v_start"
        /\ IF scan_sources[a] = None
             THEN Goto(t, "v_notconn") /\ UNCHANGED visualization_processes
             ELSE IF pid # None /\ psutil /\ alive[pid]
                    THEN /\ task' = [task EXCEPT ![t].pc = "v_already", ![t].loc = pid]
                         /\ UNCHANGED visualization_processes
                    ELSE /\ Goto(t, "v_prespawn")
                         /\ visualization_processes' =
                              IF pid # None /\ psutil
                                THEN [visualization_processes EXCEPT ![a] = None]
                                ELSE visualization_processes
        /\ UNCHANGED <<scan_sources, handleVars, procVars, mainVars>>

\* lines 61-68: subprocess.Popen([...], start_new_session=True), which raises
\* (inner except, line 88) or returns a running child; then the settle delay
StartSpawn(t) ==
    /\ Serving
    /\ task[t].pc = "v_prespawn"
    /\ \/ /\ task' = [task EXCEPT ![t].pc = "v_inner_except", ![t].err = "Popen"]
          /\ UNCHANGED procVars
       \/ /\ np < MaxPids
          /\ np' = np + 1
          /\ pAddr' = [pAddr EXCEPT ![np + 1] = task[t].addr]
          /\ alive' = [alive EXCEPT ![np + 1] = TRUE]
          /\ task' = [task EXCEPT ![t].pc = "v_settle", ![t].loc = np + 1]
          /\ UNCHANGED signalled
    /\ UNCHANGED <<scan_sources, visualization_processes, handleVars, mainVars>>

\* the poll of line 69 left out: the pid is recorded whatever the child did
StartSettleNoPoll(t) ==
    /\ Serving
    /\ task[t].pc = "v_settle"
    /\ visualization_processes' =
         [visualization_processes EXCEPT ![task[t].addr] = task[t].loc]
    /\ Goto(t, "v_stored")
    /\ UNCHANGED <<scan_sources, handleVars, procVars, mainVars>>

\* lines 69-80: the single poll after the settle delay; a child that has exited
\* is reported (line 72), a running one is recorded (line 79)
StartSettle(t) ==
    /\ Serving
    /\ task[t].pc = "v_settle"
    /\ IF ~alive[task[t].loc]
         THEN /\ task' = [task EXCEPT ![t].pc = "v_exited", ![t].err = "exited"]
              /\ UNCHANGED visualization_processes
         ELSE /\ visualization_processes' =
                   [visualization_processes EXCEPT ![task[t].addr] = task[t].loc]
              /\ Goto(t, "v_stored")
    /\ UNCHANGED <<scan_sources, handleVars, procVars, mainVars>>

\* the success record returned without its pid
StartReturnNoPid(t) ==
    /\ Serving
    /\ task[t].pc \in {"v_notconn", "v_already", "v_exited", "v_stored",
                       "v_inner_except", "v_except"}
    /\ CASE task[t].pc = "v_notconn" -> Finish(t, "not_connected", "none", None)
         [] task[t].pc = "v_already" -> Finish(t, "already_running", "none", task[t].loc)
         [] task[t].pc = "v_stored" -> Finish(t, "success", "none", None)
         [] OTHER -> Finish(t, "error", task[t].err, None)
    /\ UNCHANGED <<scan_sources, visualization_processes, handleVars, procVars, mainVars>>

\* lines 37-41, 48-53, 73-77, 82-87, 90-94 and 98-102: the returns of the handler
StartReturn(t) ==
    /\ Serving
    /\ task[t].pc \in {"v_notconn", "v_already", "v_exited", "v_stored",
                       "v_inner_except", "v_except"}
    /\ CASE task[t].pc = "v_notconn" -> Finish(t, "not_connected", "none", None)
         [] task[t].pc = "v_already" -> Finish(t, "already_running", "none", task[t].loc)
         [] task[t].pc = "v_stored" -> Finish(t, "success", "none", task[t].loc)
         [] OTHER -> Finish(t, "error", task[t].err, None)
    /\ UNCHANGED <<scan_sources, visualization_processes, handleVars, procVars, mainVars>>

\* --------------------------------------------------------- stop_visualization
\* lines 120-128: if hostname not in visualization_processes; pid = visualization_processes[hostname]
StopCheck(t) ==
    /\ Serving
    /\ task[t].pc = "s_start"
    /\ IF visualization_processes[task[t].addr] = None
         THEN Goto(t, "s_untracked")
         ELSE task' = [task EXCEPT ![t].pc = "s_tracked",
                                   ![t].loc = visualization_processes[task[t].addr]]
    /\ UNCHANGED <<scan_sources, visualization_processes, handleVars, procVars, mainVars>>

\* lines 129-150 with psutil: a dead pid goes to the purge at line 136 (after
\* the await of line 135); a live one has its tree terminated and killed and the
\* entry deleted.  psutil.Process(pid), terminate() and kill() raise
\* NoSuchProcess when the process has vanished since pid_exists, or
\* AccessDenied, before or after a signal has been sent; del raises KeyError
\* when the entry has gone.  None of these is ImportError, so each is caught
\* at line 185.
\* lines 158-163 without psutil: os.kill(pid, SIGTERM), which raises
\* ProcessLookupError for a dead pid (inner except, line 178), then the sleep.
StopTerminate(t) ==
    LET a == task[t].addr
        pid == task[t].loc
    IN  /\ Serving
        /\ task[t].pc = "s_tracked"
        /\ IF psutil
             THEN IF ~alive[pid]
                    THEN /\ Goto(t, "s_dead")
                         /\ UNCHANGED <<visualization_processes, procVars>>
                    ELSE \/ /\ alive' = [alive EXCEPT ![pid] = FALSE]
                            /\ signalled' = signalled \cup {pid}
                            /\ IF visualization_processes[a] = None
                                 THEN /\ task' = [task EXCEPT ![t].pc = "s_except",
                                                              ![t].err = "KeyError"]
                                      /\ UNCHANGED visualization_processes
                                 ELSE /\ visualization_processes' =
                                           [visualization_processes EXCEPT ![a] = None]
                                      /\ Goto(t, "s_stopped")
                            /\ UNCHANGED <<np, pAddr>>
                         \/ /\ \E vanished \in BOOLEAN, sent \in BOOLEAN :
                                  /\ alive' = [alive EXCEPT ![pid] = ~vanished]
                                  /\ signalled' = IF sent THEN signalled \cup {pid}
                                                   ELSE signalled
                            /\ task' = [task EXCEPT ![t].pc = "s_except", ![t].err = "psutil"]
                            /\ UNCHANGED <<visualization_processes, np, pAddr>>
             ELSE /\ signalled' = signalled \cup {pid}
                  /\ IF alive[pid]
                       THEN Goto(t, "s_fb_wait")
                       ELSE task' = [task EXCEPT ![t].pc = "s_inner_except", ![t].err = "os.kill"]
                  /\ UNCHANGED <<visualization_processes, np, pAddr, alive>>
        /\ UNCHANGED <<scan_sources, handleVars, mainVars>>

\* lines 136-141: del visualization_processes[hostname] for a pid found dead,
\* and the return of "not_running"; the KeyError of del is caught at line 185
StopPurge(t) ==
    /\ Serving
    /\ task[t].pc = "s_dead"
    /\ IF visualization_processes[task[t].addr] = None
         THEN /\ task' = [task EXCEPT ![t].pc = "s_except", ![t].err = "KeyError"]
              /\ UNCHANGED visualization_processes
         ELSE /\ visualization_processes' =
                   [visualization_processes EXCEPT ![task[t].addr] = None]
              /\ Finish(t, "not_running", "none", None)
    /\ UNCHANGED <<scan_sources, handleVars, procVars, mainVars>>

\* line 170 without psutil: del visualization_processes[hostname]; its KeyError
\* is caught by the inner except Exception at line 178
FallbackDel(t) ==
    IF visualization_processes[task[t].addr] = None
      THEN /\ task' = [task EXCEPT ![t].pc = "s_inner_except", ![t].err = "KeyError"]
           /\ UNCHANGED visualization_processes
      ELSE /\ visualization_processes' =
                [visualization_processes EXCEPT ![task[t].addr] = None]
           /\ Goto(t, "s_stopped")

\* lines 164-170 without psutil: os.kill(pid, 0) probes the pid after the sleep.
\* A survivor is sent SIGKILL and the handler awaits ctx.info (line 167); for a
\* pid that is gone os.kill raises OSError, which is passed over, and the
\* handler goes straight on to the del of line 170.
StopFallbackKill(t) ==
    /\ Serving
    /\ task[t].pc = "s_fb_wait"
    /\ IF alive[task[t].loc]
         THEN /\ alive' = [alive EXCEPT ![task[t].loc] = FALSE]
              /\ Goto(t, "s_fb_killed")
              /\ UNCHANGED visualization_processes
         ELSE /\ FallbackDel(t)
              /\ UNCHANGED alive
    /\ UNCHANGED <<scan_sources, handleVars, np, pAddr, signalled, mainVars>>

\* line 170 after the await of line 167
StopFallbackDel(t) ==
    /\ Serving
    /\ task[t].pc = "s_fb_killed"
    /\ FallbackDel(t)
    /\ UNCHANGED <<scan_sources, handleVars, procVars, mainVars>>

\* lines 122-126, 153-157, 173-177, 180-184 and 188-192: the other returns
StopReturn(t) ==
    /\ Serving
    /\ task[t].pc \in {"s_untracked", "s_stopped", "s_inner_except", "s_except"}
    /\ CASE task[t].pc = "s_untracked" -> Finish(t, "not_running", "none", None)
         [] task[t].pc = "s_stopped" -> Finish(t, "success", "none", None)
         [] OTHER -> Finish(t, "error", task[t].err, None)
    /\ UNCHANGED <<scan_sources, visualization_processes, handleVars, procVars, mainVars>>

\* -------------------------------------------------------- list_visualizations
Tracked == {a \in Addrs : visualization_processes[a] # None}

\* the except ImportError of line 230 left out: the missing module ends the
\* call in the handler's except Exception
ListSweepNoFallback(t) ==
    /\ Serving
    /\ task[t].pc = "l_start"
    /\ IF psutil
         THEN \E refused \in SUBSET {a \in Tracked : alive[visualization_processes[a]]} :
                LET shown == {a \in Tracked : alive[visualization_processes[a]]} \ refused
                IN  /\ task' = [task EXCEPT ![t].pc = "l_listed",
                                   ![t].lst = {<<a, visualization_processes[a], "measured">> :
                                                  a \in shown}]
                    /\ visualization_processes' =
                         [a \in Addrs |-> IF a \in shown THEN visualization_processes[a]
                                          ELSE None]
         ELSE /\ task' = [task EXCEPT ![t].pc = "l_except", ![t].err = "ImportError"]
              /\ UNCHANGED visualization_processes
    /\ UNCHANGED <<scan_sources, handleVars, procVars, mainVars>>

\* lines 209-238.  With psutil an entry is listed, with its measurements, when
\* its pid exists and psutil.Process(pid) and its queries succeed; it goes to
\* to_remove when the pid does not exist or when they raise NoSuchProcess or
\* AccessDenied (the addresses in `refused`).  Without psutil (ImportError,
\* line 230) every entry is listed with status "unknown" and no measurement.
\* Then every address of to_remove is deleted.
ListSweep(t) ==
    /\ Serving
    /\ task[t].pc = "l_start"
    /\ IF psutil
         THEN \E refused \in SUBSET {a \in Tracked : alive[visualization_processes[a]]} :
                LET shown == {a \in Tracked : alive[visualization_processes[a]]} \ refused
                IN  /\ task' = [task EXCEPT ![t].pc = "l_listed",
                                   ![t].lst = {<<a, visualization_processes[a], "measured">> :
                                                  a \in shown}]
                    /\ visualization_processes' =
                         [a \in Addrs |-> IF a \in shown THEN visualization_processes[a]
                                          ELSE None]
         ELSE /\ task' = [task EXCEPT ![t].pc = "l_listed",
                             ![t].lst = {<<a, visualization_processes[a], "unknown">> :
                                            a \in Tracked}]
              /\ UNCHANGED visualization_processes
    /\ UNCHANGED <<scan_sources, handleVars, procVars, mainVars>>

\* lines 241-245 and 249-252: the returns; total_count is the size of the list
ListReturn(t) ==
    /\ Serving
    /\ task[t].pc \in {"l_listed", "l_except"}
    /\ IF task[t].pc = "l_listed"
         THEN Finish(t, "success", "none", Cardinality(task[t].lst))
         ELSE Finish(t, "error", task[t].err, None)
    /\ UNCHANGED <<scan_sources, visualization_processes, handleVars, procVars, mainVars>>

\* ------------------------------------------------------------- ctx callbacks
\* Where an exception raised by the ctx callback a task is suspended at is
\* caught.  connect_sensor returns from its except block without a callback.
\* The other handlers await a callback inside their except block; when that
\* one raises too, the exception leaves the handler ("raised").
AfterRaise(op, pc) ==
    CASE op = "connect" -> "done"
      [] op = "disconnect" -> IF pc = "d_except" THEN "raised" ELSE "d_except"
      [] op = "start_viz" ->
            IF pc = "v_except" THEN "raised"
            ELSE IF pc = "v_inner_except" THEN "v_except"
            ELSE IF pc \in {"v_settle", "v_exited", "v_stored"} THEN "v_inner_except"
            ELSE "v_except"
      [] op = "stop_viz" ->
            IF pc = "s_except" THEN "raised"
            ELSE IF pc = "s_inner_except" THEN "s_except"
            ELSE IF ~psutil /\ pc \in {"s_fb_killed", "s_stopped"} THEN "s_inner_except"
            ELSE "s_except"
      [] op = "list_viz" -> IF pc = "l_except" THEN "raised" ELSE "l_except"

\* suspension points that are a sleep, not a ctx callback
Sleeping(pc) == pc = "s_fb_wait"

\* The ctx.info, ctx.error or ctx.report_progress call a task is suspended at
\* raises (the transport is closed or broken).
CtxRaise(t) ==
    /\ Serving
    /\ InFlight(t)
    /\ ~Sleeping(task[t].pc)
    /\ LET to == AfterRaise(task[t].op, task[t].pc)
       IN  CASE to = "done" -> Finish(t, "error", "callback", None)
             [] to = "raised" ->
                  task' = [task EXCEPT ![t].pc = "done", ![t].status = "raised",
                                       ![t].err = "callback"]
             [] OTHER -> task' = [task EXCEPT ![t].pc = to, ![t].err = "callback"]
    /\ UNCHANGED <<scan_sources, visualization_processes, handleVars, procVars, mainVars>>

\* ---------------------------------------------------------------- environment
\* A visualizer process exits on its own account (crash, window closed, kill).
ProcExit(p) ==
    /\ alive[p]
    /\ alive' = [alive EXCEPT ![p] = FALSE]
    /\ UNCHANGED <<scan_sources, visualization_processes, task, handleVars, np, pAddr,
                   signalled, mainVars>>

\* ---------------------------------------------------------- cleanup_resources
Inc(n) == IF n < 2 THEN n + 1 ELSE 2
First(S) == CHOOSE x \in S : \A y \in S : x <= y

\* app_setup.py lines 32-39: for hostname, source in list(scan_sources.items()):
\* try source.close(), except Exception log, finally scan_sources.pop(hostname, None).
\* `todo` is what is left of the snapshot, `raising` the handles whose close()
\* raises; st holds scan_sources, the close() counts and the handles that raised.
\* The pop is in the finally clause: it runs whether close() raised or not.
RECURSIVE CloseAllNoFinally(_, _, _)
CloseAllNoFinally(todo, raising, st) ==
    IF todo = {} THEN st
    ELSE LET a == First(todo)
             h == st.ss[a]
         IN  CloseAllNoFinally(todo \ {a}, raising,
                [ss |-> IF h \in raising THEN st.ss ELSE [st.ss EXCEPT ![a] = None],
                 hc |-> [st.hc EXCEPT ![h] = Inc(@)],
                 hf |-> IF h \in raising THEN st.hf \cup {h} ELSE st.hf])

RECURSIVE CloseAll(_, _, _)
CloseAll(todo, raising, st) ==
    IF todo = {} THEN st
    ELSE LET a == First(todo)
             h == st.ss[a]
         IN  CloseAll(todo \ {a}, raising,
                [ss |-> [st.ss EXCEPT ![a] = None],
                 hc |-> [st.hc EXCEPT ![h] = Inc(@)],
                 hf |-> IF h \in raising THEN st.hf \cup {h} ELSE st.hf])

\* app_setup.py lines 42-51: for hostname, pid in list(visualization_processes.items()):
\* try os.kill(pid, SIGTERM), except Exception log, finally pop(hostname, None).
\* `raising` are the pids for which os.kill raises (the process is gone, or
\* the signal is refused).
\* the pop of the finally clause left out
RECURSIVE KillAllKeepEntries(_, _, _, _)
KillAllKeepEntries(todo, raising, vp, sig) ==
    IF todo = {} THEN [vp |-> vp, sig |-> sig]
    ELSE LET a == First(todo)
         IN  KillAllKeepEntries(todo \ {a}, raising, vp, sig \cup {vp[a]})

RECURSIVE KillAll(_, _, _, _)
KillAll(todo, raising, vp, sig) ==
    IF todo = {} THEN [vp |-> vp, sig |-> sig]
    ELSE LET a == First(todo)
         IN  KillAll(todo \ {a}, raising, [vp EXCEPT ![a] = None], sig \cup {vp[a]})

\* cleanup_resources() is synchronous: it runs from its first line to its last
\* with no handler in between.  mcp.stop() at lines 56-60 touches no registry.
Cleanup ==
    LET hs == {scan_sources[a] : a \in {x \in Addrs : scan_sources[x] # None}}
        ps == {visualization_processes[a] : a \in Tracked}
    IN  \E fh \in SUBSET hs, fp \in SUBSET ps :
           LET c == CloseAll({a \in Addrs : scan_sources[a] # None}, fh,
                             [ss |-> scan_sources, hc |-> hClose, hf |-> hFail])
               k == KillAll(Tracked, fp \cup {p \in ps : ~alive[p]},
                            visualization_processes, signalled)
           IN  /\ scan_sources' = c.ss
               /\ hClose' = c.hc
               /\ hFail' = c.hf
               /\ visualization_processes' = k.vp
               /\ signalled' = k.sig
               /\ cleaned' = [hs |-> hs, ps |-> ps, fh |-> fh,
                              fp |-> fp \cup {p \in ps : ~alive[p]}]
               /\ cleanups' = cleanups + 1
               /\ UNCHANGED <<task, calls, pre, last, nh, hReg, np, pAddr, alive, psutil>>

\* main.py lines 27-51: SIGINT or SIGTERM while the server runs: cleanup, then
\* os._exit(0), which skips the finally block and the exit hook.  (Line 51,
\* os._exit(1), needs an exception out of cleanup_resources, which catches
\* every exception of the calls it makes.)
SignalHandler ==
    /\ Serving
    /\ Cleanup
    /\ phase' = "exited"
    /\ cause' = "signal"
    /\ exitCode' = 0

\* main.py lines 103/120 and 129: mcp.run() returns; control goes to finally
RunReturns ==
    /\ Serving
    /\ phase' = "finally"
    /\ cause' = "returned"
    /\ UNCHANGED <<scan_sources, visualization_processes, task, handleVars, procVars,
                   calls, pre, last, psutil, cleanups, cleaned, exitCode>>

\* main.py lines 104-115 and 121-128: mcp.run() raises.  The except block runs
\* cleanup_resources() and then sys.exit(0) for KeyboardInterrupt and
\* CancelledError ("interrupted"), sys.exit(1) for any other Exception
\* ("failed"); the SystemExit it raises passes through the finally block.
RunRaises ==
    /\ Serving
    /\ Cleanup
    /\ phase' = "finally"
    /\ \E kind \in {"interrupted", "failed"} :
          /\ cause' = kind
          /\ exitCode' = IF kind = "failed" THEN 1 ELSE 0

\* main.py lines 129-135: the finally block runs cleanup_resources() and
\* sys.exit(0), whose SystemExit replaces the one in flight
MainFinally ==
    /\ phase = "finally"
    /\ Cleanup
    /\ phase' = "atexit"
    /\ exitCode' = 0
    /\ UNCHANGED cause

\* app_setup.py line 63: atexit.register(cleanup_resources) runs it at
\* interpreter exit; the process ends with the code of the last sys.exit()
ExitHook ==
    /\ phase = "atexit"
    /\ Cleanup
    /\ phase' = "exited"
    /\ UNCHANGED <<cause, exitCode>>

\* ------------------------------------------- get_sensor_info, get_connected_sensors
QueryOps == {"get_info", "list_sensors", "capture", "get_scan", "stream", "point_cloud"}
ScanOps == {"capture", "get_scan", "stream", "point_cloud"}

\* the membership test of a scan operation left out: iter(None) raises
DispatchQueryNoTest(t) ==
    /\ Serving
    /\ task[t].pc = "idle"
    /\ \E op \in QueryOps, a \in Addrs :
          LET h == scan_sources[a]
              call == [Idle EXCEPT !.op = op,
                                   !.addr = IF op = "list_sensors" THEN None ELSE a]
          IN  task' = [task EXCEPT ![t] =
                         CASE op = "get_info" -> [call EXCEPT !.pc = "i_start"]
                           [] op = "list_sensors" -> [call EXCEPT !.pc = "g_start"]
                           [] h = None -> [call EXCEPT !.pc = "done", !.status = "error",
                                                       !.err = "exception"]
                           [] OTHER -> [call EXCEPT !.pc = "k_start", !.loc = h,
                                                    !.used = IF op = "point_cloud"
                                                             THEN {h} ELSE {}]]
    /\ UNCHANGED <<scan_sources, visualization_processes, handleVars, procVars,
                   last, psutil, phase, cleanups, cleaned, cause, exitCode>>

\* The transport dispatches a query to its handler, which runs up to its first
\* await.  The two sensor queries start with callbacks.  A scan operation tests
\* the registry first: it returns not_connected at once, or takes the handle
\* (process_point_cloud reads its metadata too) and awaits its first callback.
DispatchQuery(t) ==
    /\ Serving
    /\ task[t].pc = "idle"
    /\ \E op \in QueryOps, a \in Addrs :
          LET h == scan_sources[a]
              call == [Idle EXCEPT !.op = op,
                                   !.addr = IF op = "list_sensors" THEN None ELSE a]
          IN  task' = [task EXCEPT ![t] =
                         CASE op = "get_info" -> [call EXCEPT !.pc = "i_start"]
                           [] op = "list_sensors" -> [call EXCEPT !.pc = "g_start"]
                           [] h = None -> [call EXCEPT !.pc = "done",
                                                       !.status = "not_connected"]
                           [] OTHER -> [call EXCEPT !.pc = "k_start", !.loc = h,
                                                    !.used = IF op = "point_cloud"
                                                             THEN {h} ELSE {}]]
    /\ UNCHANGED <<scan_sources, visualization_processes, handleVars, procVars,
                   last, psutil, phase, cleanups, cleaned, cause, exitCode>>

\* a query dispatched while no other call is in flight
QueryCall(t) ==
    /\ \A u \in Tasks : task[u].pc = "idle"
    /\ calls < MaxCalls
    /\ calls' = calls + 1
    /\ DispatchQuery(t)
    /\ pre' = Snapshot

\* the registry lookup left out: every address is answered not_connected
InfoCheckNoLookup(t) ==
    /\ Serving
    /\ task[t].pc = "i_start"
    /\ Goto(t, "i_absent")
    /\ UNCHANGED <<scan_sources, visualization_processes, handleVars, procVars, mainVars>>

\* get_sensor_info after its first callbacks: the membership test, and the read
\* of source.metadata when the address is registered
InfoCheck(t) ==
    /\ Serving
    /\ task[t].pc = "i_start"
    /\ LET h == scan_sources[task[t].addr]
       IN  IF h # None
           THEN task' = [task EXCEPT ![t].pc = "i_meta", ![t].loc = h,
                                     ![t].used = @ \cup {h}]
           ELSE Goto(t, "i_absent")
    /\ UNCHANGED <<scan_sources, visualization_processes, handleVars, procVars, mainVars>>

\* sensor_info is built from the metadata object read before the callbacks
InfoBuild(t) ==
    /\ Serving
    /\ task[t].pc = "i_meta"
    /\ task' = [task EXCEPT ![t].pc = "i_built", ![t].res = task[t].loc]
    /\ UNCHANGED <<scan_sources, visualization_processes, handleVars, procVars, mainVars>>

InfoReturn(t) ==
    /\ Serving
    /\ task[t].pc = "i_built"
    /\ Finish(t, "success", "none", task[t].res)
    /\ UNCHANGED <<scan_sources, visualization_processes, handleVars, procVars, mainVars>>

InfoAbsent(t) ==
    /\ Serving
    /\ task[t].pc = "i_absent"
    /\ Finish(t, "not_connected", "none", None)
    /\ UNCHANGED <<scan_sources, visualization_processes, handleVars, procVars, mainVars>>

\* only the first entry of the registry is summarised
RECURSIVE SummariesFirstOnly(_)
SummariesFirstOnly(todo) ==
    IF todo = {} THEN <<>>
    ELSE LET a == First(todo)
         IN  <<[hostname |-> a, meta |-> scan_sources[a]]>>

\* the loop of get_connected_sensors over scan_sources.items(): one summary per
\* entry, made of the key and of the serial and model of the handle's metadata
RECURSIVE Summaries(_)
Summaries(todo) ==
    IF todo = {} THEN <<>>
    ELSE LET a == First(todo)
         IN  <<[hostname |-> a, meta |-> scan_sources[a]]>> \o Summaries(todo \ {a})

SensorsLoop(t) ==
    /\ Serving
    /\ task[t].pc = "g_start"
    /\ LET keys == {a \in Addrs : scan_sources[a] # None}
       IN  task' = [task EXCEPT ![t].pc = "g_listed", ![t].res = Summaries(keys),
                                ![t].used = {scan_sources[a] : a \in keys}]
    /\ UNCHANGED <<scan_sources, visualization_processes, handleVars, procVars, mainVars>>

SensorsReturn(t) ==
    /\ Serving
    /\ task[t].pc = "g_listed"
    /\ Finish(t, "success", "none", task[t].res)
    /\ UNCHANGED <<scan_sources, visualization_processes, handleVars, procVars, mainVars>>

\* ------------------------------------------------------------ scan operations
\* capture_single_scan, get_scan, process_point_cloud: iter(source) and
\* next(...) yield a scan, raise StopIteration (no data) or raise otherwise
ScanRead(t) ==
    /\ Serving
    /\ task[t].pc = "k_start"
    /\ task[t].op \in ScanOps \ {"stream"}
    /\ \E got \in {"scan", "no_data", "exception"} :
          IF got = "scan"
          THEN task' = [task EXCEPT ![t].pc = "k_got", ![t].used = @ \cup {task[t].loc}]
          ELSE task' = [task EXCEPT ![t].pc = "done", ![t].status = "error",
                                    ![t].err = got, ![t].used = @ \cup {task[t].loc}]
    /\ UNCHANGED <<scan_sources, visualization_processes, handleVars, procVars, mainVars>>

\* the scan is converted to the result; process_point_cloud answers "warning"
\* when no point is valid; a conversion that raises is answered "error"
ScanFinish(t) ==
    /\ Serving
    /\ task[t].pc = "k_got"
    /\ task[t].op \in ScanOps \ {"stream"}
    /\ \E st \in {"success", "warning", "error"} :
          /\ st = "warning" => task[t].op = "point_cloud"
          /\ Finish(t, st, IF st = "error" THEN "exception" ELSE "none", None)
    /\ UNCHANGED <<scan_sources, visualization_processes, handleVars, procVars, mainVars>>

\* an error of the stream evicts the session
StreamLoopEvicting(t) ==
    /\ Serving
    /\ task[t].pc \in {"k_start", "k_got"}
    /\ task[t].op = "stream"
    /\ scan_sources' = [scan_sources EXCEPT ![task[t].addr] = None]
    /\ task' = [task EXCEPT ![t].pc = "done", ![t].status = "error",
                            ![t].err = "exception", ![t].used = @ \cup {task[t].loc}]
    /\ UNCHANGED <<visualization_processes, handleVars, procVars, mainVars>>

\* stream_scans: one round of "for i, scan in enumerate(source)": a scan is
\* captured (callbacks follow), the loop ends, or the iteration raises
StreamLoop(t) ==
    /\ Serving
    /\ task[t].pc \in {"k_start", "k_got"}
    /\ task[t].op = "stream"
    /\ \E got \in {"scan", "end", "exception"} :
          CASE got = "scan" ->
                 task' = [task EXCEPT ![t].pc = "k_got", ![t].used = @ \cup {task[t].loc}]
            [] got = "end" ->
                 task' = [task EXCEPT ![t].pc = "k_end", ![t].used = @ \cup {task[t].loc}]
            [] OTHER ->
                 task' = [task EXCEPT ![t].pc = "done", ![t].status = "error",
                                      ![t].err = "exception",
                                      ![t].used = @ \cup {task[t].loc}]
    /\ UNCHANGED <<scan_sources, visualization_processes, handleVars, procVars, mainVars>>

StreamReturn(t) ==
    /\ Serving
    /\ task[t].pc = "k_end"
    /\ Finish(t, "success", "none", None)
    /\ UNCHANGED <<scan_sources, visualization_processes, handleVars, procVars, mainVars>>

\* the code of a handler between two suspension points
Step(t) ==
    \/ ConnectCheck(t)
    \/ ConnectAlready(t)
    \/ ConnectOpen(t)
    \/ ConnectMetadata(t)
    \/ ConnectStore(t)
    \/ ConnectReturn(t)
    \/ DisconnectCheck(t)
    \/ DisconnectClose(t)
    \/ DisconnectReturn(t)
    \/ StartCheck(t)
    \/ StartSpawn(t)
    \/ StartSettle(t)
    \/ StartReturn(t)
    \/ StopCheck(t)
    \/ StopTerminate(t)
    \/ StopPurge(t)
    \/ StopFallbackKill(t)
    \/ StopFallbackDel(t)
    \/ StopReturn(t)
    \/ ListSweep(t)
    \/ ListReturn(t)

\* Any interleaving of at most MaxCalls calls, with callbacks that may raise.
Next ==
    \/ \E t \in Tasks : Invoke(t)
    \/ \E t \in Tasks : Step(t)
    \/ \E t \in Tasks : Return(t)
    \/ \E t \in Tasks : CtxRaise(t)
    \/ \E p \in Pids : ProcExit(p)
    \/ SignalHandler
    \/ RunReturns
    \/ RunRaises
    \/ MainFinally
    \/ ExitHook

Spec == Init /\ [][Next]_vars

\* Calls served one at a time by a transport whose callbacks do not raise.
SeqNext ==
    \/ Call(SerialTask)
    \/ Step(SerialTask)
    \/ Return(SerialTask)
    \/ \E p \in Pids : ProcExit(p)
    \/ SignalHandler
    \/ RunReturns
    \/ RunRaises
    \/ MainFinally
    \/ ExitHook

SeqSpec == Init /\ [][SeqNext]_vars

\* The server while it serves (no signal, mcp.run() has not returned): up to
\* MaxSerialCalls calls served one at a time by a transport whose callbacks do
\* not raise, each one remembered for the next.
ServeNext ==
    \/ SerialCall(SerialTask)
    \/ Step(SerialTask)
    \/ SerialReturn(SerialTask)
    \/ \E p \in Pids : ProcExit(p)

ServeSpec == Init /\ [][ServeNext]_vars
\* the code of a query handler between two suspension points
QueryStep(t) ==
    \/ InfoCheck(t)
    \/ InfoBuild(t)
    \/ InfoReturn(t)
    \/ InfoAbsent(t)
    \/ SensorsLoop(t)
    \/ SensorsReturn(t)
    \/ ScanRead(t)
    \/ ScanFinish(t)
    \/ StreamLoop(t)
    \/ StreamReturn(t)

\* The server while it serves: up to MaxCalls calls, queries among them, served
\* one at a time by a transport whose callbacks do not raise.
QueryNext ==
    \/ Call(SerialTask)
    \/ QueryCall(SerialTask)
    \/ Step(SerialTask)
    \/ QueryStep(SerialTask)
    \/ Return(SerialTask)
    \/ \E p \in Pids : ProcExit(p)

QuerySpec == Init /\ [][QueryNext]_vars

\* a query dispatched while other calls may be in flight
QueryInvoke(t) ==
    /\ calls < MaxCalls
    /\ calls' = calls + 1
    /\ DispatchQuery(t)
    /\ UNCHANGED pre

\* Any interleaving of at most MaxCalls calls, queries among them, while the
\* server serves, on a transport whose callbacks do not raise.
OverlapNext ==
    \/ \E t \in Tasks : Invoke(t)
    \/ \E t \in Tasks : QueryInvoke(t)
    \/ \E t \in Tasks : Step(t)
    \/ \E t \in Tasks : QueryStep(t)
    \/ \E t \in Tasks : Return(t)
    \/ \E p \in Pids : ProcExit(p)

OverlapSpec == Init /\ [][OverlapNext]_vars

\* ------------------------------------------------------------ discover_sensors
\* A name a discovery record gives: an address, or None where the field is
\* missing (the code then fills in "unknown").
Names == Addrs \cup {None}

\* The items a structured output iterates over: records (dicts) with their
\* "hostname" and "ip" fields, or an item that is no dict (a string, a number).
\* Iterating a JSON object yields its keys, which are strings.
NoDict == [dict |-> FALSE, hostname |-> None, ip |-> None]
JsonItems == {[dict |-> TRUE, hostname |-> h, ip |-> i] : h \in Names, i \in Names}
                \cup {NoDict}

\* The lines of an output that is not JSON: "S: <name>" starts a record,
\* "<key>: <value>" is attached to the current record (keys "i" and "sn"
\* here), other lines hold no colon.
TextLines == {[tag |-> "sensor", key |-> "none", val |-> a] : a \in Addrs}
               \cup {[tag |-> "field", key |-> "i", val |-> a] : a \in Addrs}
               \cup {[tag |-> "field", key |-> "sn", val |-> None],
                     [tag |-> "other", key |-> "none", val |-> None]}

SeqsUpTo(S, n) == UNION {[1..k -> S] : k \in 0..n}

Reply(kind, items, lines) == [kind |-> kind, items |-> items, lines |-> lines]
NoReply == Reply("none", <<>>, <<>>)

\* What communicate(timeout=10) can yield: a timeout, a nonzero exit code, or
\* exit code 0 with a blank stdout, a JSON list, a JSON object, a JSON scalar
\* (number, null, true) or text that is not JSON.
Replies ==
    {Reply(k, <<>>, <<>>) : k \in {"timeout", "nonzero", "blank", "scalar"}}
      \cup {Reply("list", its, <<>>) : its \in SeqsUpTo(JsonItems, MaxRecords)}
      \cup {Reply("object", its, <<>>) : its \in SeqsUpTo({NoDict}, MaxRecords)}
      \cup {Reply("text", <<>>, ls) : ls \in SeqsUpTo(TextLines, MaxLines) \ {<<>>}}

\* the result of a call that returns no "sensors" list
NoSensors == [listed |-> FALSE, sensors |-> <<>>]

\* sensor_info["hostname"] in scan_sources
Connected(name) == name \in Addrs /\ scan_sources[name] # None

\* the record the handler returns for a parsed one
Standardized(rec) ==
    [hostname |-> rec.hostname, ip |-> rec.ip,
     connection_status |-> IF Connected(rec.hostname) THEN "connected" ELSE "discovered"]

\* json.loads and the loop over its value: sensor.get raises on an item that
\* is no dict, and a scalar cannot be iterated
ParseJson(r) ==
    IF r.kind = "scalar" \/ \E i \in 1..Len(r.items) : ~r.items[i].dict
    THEN [ok |-> FALSE, sensors |-> <<>>]
    ELSE [ok |-> TRUE, sensors |-> [i \in 1..Len(r.items) |-> Standardized(r.items[i])]]

\* key normalisation of the line-oriented parse
Key(k) == IF k = "i" THEN "ip" ELSE k

NoFields == [some |-> FALSE, hostname |-> None, ip |-> None]

\* the line-oriented parse: current_sensor (cur) is appended when the next
\* sensor line or the end of the text is reached and it is not empty
RECURSIVE TextRecords(_, _, _)
TextRecords(ls, cur, acc) ==
    IF ls = <<>> THEN (IF cur.some THEN Append(acc, cur) ELSE acc)
    ELSE LET l == Head(ls)
         IN  CASE l.tag = "sensor" ->
                    TextRecords(Tail(ls),
                                [some |-> TRUE, hostname |-> l.val, ip |-> None],
                                IF cur.some THEN Append(acc, cur) ELSE acc)
               [] l.tag = "field" ->
                    TextRecords(Tail(ls),
                                [cur EXCEPT !.some = TRUE,
                                            !.ip = IF Key(l.key) = "ip" THEN l.val ELSE @],
                                acc)
               [] OTHER -> TextRecords(Tail(ls), cur, acc)

ParseText(r) ==
    LET recs == TextRecords(r.lines, NoFields, <<>>)
    IN  [ok |-> TRUE, sensors |-> [i \in 1..Len(recs) |-> Standardized(recs[i])]]

\* the structured parse, and the line-oriented one where json.loads raises
\* JSONDecodeError
Parse(r) == IF r.kind = "text" THEN ParseText(r) ELSE ParseJson(r)

\* The transport dispatches discover_sensors, which runs up to its first
\* callbacks.
DiscoverCall(t) ==
    /\ Serving
    /\ \A u \in Tasks : task[u].pc = "idle"
    /\ calls = 0
    /\ calls' = calls + 1
    /\ task' = [task EXCEPT ![t] = [Idle EXCEPT !.op = "discover", !.pc = "x_start",
                                                !.loc = NoReply, !.res = NoSensors]]
    /\ pre' = Snapshot
    /\ UNCHANGED <<scan_sources, visualization_processes, handleVars, procVars,
                   last, psutil, phase, cleanups, cleaned, cause, exitCode>>

\* Popen(["ouster-cli", "discover"]): the command starts, or Popen raises
DiscoverSpawn(t) ==
    /\ Serving
    /\ task[t].pc = "x_start"
    /\ \E started \in BOOLEAN : Goto(t, IF started THEN "x_wait" ELSE "x_except")
    /\ UNCHANGED <<scan_sources, visualization_processes, handleVars, procVars, mainVars>>

\* communicate(timeout=10) and the test of the exit code
DiscoverRun(t) ==
    /\ Serving
    /\ task[t].pc = "x_wait"
    /\ \E r \in Replies :
          task' = [task EXCEPT ![t].loc = r,
                               ![t].pc = CASE r.kind = "timeout" -> "x_timeout"
                                           [] r.kind = "nonzero" -> "x_failed"
                                           [] OTHER -> "x_ran"]
    /\ UNCHANGED <<scan_sources, visualization_processes, handleVars, procVars, mainVars>>

DiscoverFailed(t) ==
    /\ Serving
    /\ task[t].pc = "x_failed"
    /\ Finish(t, "error", "stderr", NoSensors)
    /\ UNCHANGED <<scan_sources, visualization_processes, handleVars, procVars, mainVars>>

\* the timeout is answered as an empty discovery
DiscoverTimedOutAsEmpty(t) ==
    /\ Serving
    /\ task[t].pc = "x_timeout"
    /\ Finish(t, "success", "none", [listed |-> TRUE, sensors |-> <<>>])
    /\ UNCHANGED <<scan_sources, visualization_processes, handleVars, procVars, mainVars>>

DiscoverTimedOut(t) ==
    /\ Serving
    /\ task[t].pc = "x_timeout"
    /\ Finish(t, "error", "timeout", NoSensors)
    /\ UNCHANGED <<scan_sources, visualization_processes, handleVars, procVars, mainVars>>

\* exit code 0: the blank test, then the parse and the cross-reference of each
\* record against scan_sources
DiscoverParse(t) ==
    /\ Serving
    /\ task[t].pc = "x_ran"
    /\ LET r == task[t].loc
           p == Parse(r)
       IN  IF r.kind = "blank" THEN Goto(t, "x_empty")
           ELSE IF p.ok
           THEN task' = [task EXCEPT ![t].pc = "x_parsed",
                                     ![t].res = [listed |-> TRUE, sensors |-> p.sensors]]
           ELSE Goto(t, "x_except")
    /\ UNCHANGED <<scan_sources, visualization_processes, handleVars, procVars, mainVars>>

DiscoverEmpty(t) ==
    /\ Serving
    /\ task[t].pc = "x_empty"
    /\ Finish(t, "success", "none", [listed |-> TRUE, sensors |-> <<>>])
    /\ UNCHANGED <<scan_sources, visualization_processes, handleVars, procVars, mainVars>>

DiscoverReturn(t) ==
    /\ Serving
    /\ task[t].pc = "x_parsed"
    /\ Finish(t, "success", "none", task[t].res)
    /\ UNCHANGED <<scan_sources, visualization_processes, handleVars, procVars, mainVars>>

\* the except Exception block of discover_sensors
DiscoverExcept(t) ==
    /\ Serving
    /\ task[t].pc = "x_except"
    /\ Finish(t, "error", "exception", NoSensors)
    /\ UNCHANGED <<scan_sources, visualization_processes, handleVars, procVars, mainVars>>

\* position of address a among the addresses of S
Rank(S, a) == Cardinality({b \in S : b <= a})

\* A serving server with sessions for the addresses of S and live visualizers
\* for those of V, opened and started one after the other.
Populated(S, V) ==
    /\ scan_sources = [a \in Addrs |-> IF a \in S THEN Rank(S, a) ELSE None]
    /\ visualization_processes = [a \in Addrs |-> IF a \in V THEN Rank(V, a) ELSE None]
    /\ task = [t \in Tasks |-> Idle]
    /\ calls = 0
    /\ pre = NoSnapshot
    /\ last = NoLast
    /\ nh = Cardinality(S)
    /\ hClose = [h \in Handles |-> 0]
    /\ hReg = [h \in Handles |-> h <= Cardinality(S)]
    /\ hFail = {}
    /\ np = Cardinality(V)
    /\ pAddr = [p \in Pids |-> IF p <= Cardinality(V)
                               THEN CHOOSE a \in V : Rank(V, a) = p ELSE None]
    /\ alive = [p \in Pids |-> p <= Cardinality(V)]
    /\ signalled = {}
    /\ psutil \in BOOLEAN
    /\ phase = "serving"
    /\ cleanups = 0
    /\ cleaned = [hs |-> {}, ps |-> {}, fh |-> {}, fp |-> {}]
    /\ cause = "none"
    /\ exitCode = NoCode

DiscoverInit ==
    \E S \in SUBSET Addrs : \E V \in SUBSET S :
        /\ Cardinality(S) <= MaxHandles
        /\ Cardinality(V) <= MaxPids
        /\ Populated(S, V)

\* discover_sensors called once in a server that holds any sessions and
\* visualizers, with any reply of the discovery command.
DiscoverNext ==
    \/ DiscoverCall(SerialTask)
    \/ DiscoverSpawn(SerialTask)
    \/ DiscoverRun(SerialTask)
    \/ DiscoverFailed(SerialTask)
    \/ DiscoverTimedOut(SerialTask)
    \/ DiscoverParse(SerialTask)
    \/ DiscoverEmpty(SerialTask)
    \/ DiscoverReturn(SerialTask)
    \/ DiscoverExcept(SerialTask)
    \/ Return(SerialTask)

DiscoverSpec == DiscoverInit /\ [][DiscoverNext]_vars

\* ------------------------------------------------------------ end-to-end run
\* the calls of the end-to-end run, all for one address
Scenario == <<"connect", "start_viz", "list_viz", "stop_viz", "list_viz", "disconnect">>

\* the next call of the run: the first one picks the address, the later ones
\* are for the address that was connected
ScenarioCall(t) ==
    /\ Serving
    /\ \A u \in Tasks : task[u].pc = "idle"
    /\ calls < Len(Scenario)
    /\ calls' = calls + 1
    /\ \E a \in Addrs :
          /\ calls > 0 => scan_sources[a] # None
          /\ LET op == Scenario[calls + 1]
             IN  task' = [task EXCEPT ![t] =
                            [Idle EXCEPT !.op = op,
                                         !.addr = IF op = "list_viz" THEN None ELSE a,
                                         !.pc = FirstPc(op)]]
    /\ pre' = Snapshot
    /\ UNCHANGED <<scan_sources, visualization_processes, handleVars, procVars,
                   last, psutil, phase, cleanups, cleaned, cause, exitCode>>

\* The external call of a step succeeded: open_source, source.metadata,
\* close(), Popen, the psutil calls and os.kill did not raise (no error is on
\* its way to the answer, no close() failed, the listing dropped no entry).
Smooth(t) ==
    /\ task'[t].err = "none"
    /\ task'[t].status # "error"
    /\ hFail' = hFail
    /\ task[t].op = "list_viz" => visualization_processes' = visualization_processes

\* the handler steps of the run, each with its external call succeeding
ScenarioStep(t) ==
    \/ ConnectCheck(t) /\ Smooth(t)
    \/ ConnectOpen(t) /\ Smooth(t)
    \/ ConnectMetadata(t) /\ Smooth(t)
    \/ ConnectStore(t) /\ Smooth(t)
    \/ ConnectReturn(t) /\ Smooth(t)
    \/ StartCheck(t) /\ Smooth(t)
    \/ StartSpawn(t) /\ Smooth(t)
    \/ StartSettle(t) /\ Smooth(t)
    \/ StartReturn(t) /\ Smooth(t)
    \/ ListSweep(t) /\ Smooth(t)
    \/ ListReturn(t) /\ Smooth(t)
    \/ StopCheck(t) /\ Smooth(t)
    \/ StopTerminate(t) /\ Smooth(t)
    \/ StopFallbackKill(t) /\ Smooth(t)
    \/ StopFallbackDel(t) /\ Smooth(t)
    \/ StopReturn(t) /\ Smooth(t)
    \/ DisconnectCheck(t) /\ Smooth(t)
    \/ DisconnectClose(t) /\ Smooth(t)
    \/ DisconnectReturn(t) /\ Smooth(t)

\* The end-to-end run on a server that starts with empty registries: the six
\* calls one after the other, no external call failing, the visualizer running
\* until it is stopped.
ScenarioNext ==
    \/ ScenarioCall(SerialTask)
    \/ ScenarioStep(SerialTask)
    \/ Return(SerialTask)

ScenarioSpec == Init /\ [][ScenarioNext]_vars

\* ------------------------------------- stop_visualization, statement by statement
\* The psutil path of stop_visualization (lines 142-150) taken one statement at
\* a time.  The processes of the tree are 0 (the parent, the tracked pid) and
\* 1..n (its children); task.res holds the tree and the events so far.
Event(kind, proc, surv) == [kind |-> kind, proc |-> proc, surv |-> surv]

\* terminate(), kill() or psutil.Process raise NoSuchProcess or AccessDenied:
\* caught at line 185
TreeRaise(t) == task' = [task EXCEPT ![t].pc = "s_except", ![t].err = "psutil"]

\* the parent is signalled before its children are enumerated
TreeEnumerateParentFirst(t) ==
    /\ Serving
    /\ task[t].pc = "s_tracked"
    /\ psutil
    /\ alive[task[t].loc]
    /\ \E n \in 0..MaxChildren :
          task' = [task EXCEPT ![t].pc = "t_children",
                               ![t].res = [n |-> n, next |-> 1, surv |-> {},
                                           ev |-> <<Event("term", 0, {}),
                                                    Event("enum", 0, {})>>]]
    /\ UNCHANGED <<scan_sources, visualization_processes, handleVars, procVars, mainVars>>

\* lines 133 and 142-143: the pid exists; parent = psutil.Process(pid);
\* children = parent.children(recursive=True)
TreeEnumerate(t) ==
    /\ Serving
    /\ task[t].pc = "s_tracked"
    /\ psutil
    /\ alive[task[t].loc]
    /\ \/ \E n \in 0..MaxChildren :
             task' = [task EXCEPT ![t].pc = "t_children",
                                  ![t].res = [n |-> n, next |-> 1, surv |-> {},
                                              ev |-> <<Event("enum", 0, {})>>]]
       \/ task' = [task EXCEPT ![t].pc = "s_except", ![t].err = "psutil",
                               ![t].res = [n |-> 0, next |-> 1, surv |-> {}, ev |-> <<>>]]
    /\ UNCHANGED <<scan_sources, visualization_processes, handleVars, procVars, mainVars>>

\* lines 144-145: for child in children: child.terminate()
TreeTerminateChild(t) ==
    /\ Serving
    /\ task[t].pc = "t_children"
    /\ task[t].res.next <= task[t].res.n
    /\ \/ task' = [task EXCEPT ![t].res.ev = Append(@, Event("term", task[t].res.next, {})),
                               ![t].res.next = @ + 1]
       \/ TreeRaise(t)
    /\ UNCHANGED <<scan_sources, visualization_processes, handleVars, procVars, mainVars>>

\* line 146: parent.terminate()
TreeTerminateParent(t) ==
    /\ Serving
    /\ task[t].pc = "t_children"
    /\ task[t].res.next > task[t].res.n
    /\ \/ /\ task' = [task EXCEPT ![t].pc = "t_wait",
                                  ![t].res.ev = Append(@, Event("term", 0, {}))]
          /\ signalled' = signalled \cup {task[t].loc}
       \/ /\ TreeRaise(t)
          /\ UNCHANGED signalled
    /\ UNCHANGED <<scan_sources, visualization_processes, handleVars, np, pAddr, alive,
                   mainVars>>

\* line 147: _, alive = psutil.wait_procs([parent] + children, timeout=3): the
\* processes that have not exited when the grace period ends
TreeWait(t) ==
    /\ Serving
    /\ task[t].pc = "t_wait"
    /\ \E surv \in SUBSET (0..task[t].res.n) :
          /\ task' = [task EXCEPT ![t].pc = "t_kill", ![t].res.surv = surv,
                                  ![t].res.ev = Append(@, Event("wait", 0, surv))]
          /\ alive' = [alive EXCEPT ![task[t].loc] = 0 \in surv]
    /\ UNCHANGED <<scan_sources, visualization_processes, handleVars, np, pAddr, signalled,
                   mainVars>>

\* lines 148-149: for process in alive: process.kill(), in the order of the
\* list (the parent first)
TreeKill(t) ==
    /\ Serving
    /\ task[t].pc = "t_kill"
    /\ task[t].res.surv # {}
    /\ LET p == First(task[t].res.surv)
       IN  \/ /\ task' = [task EXCEPT ![t].res.surv = @ \ {p},
                                      ![t].res.ev = Append(@, Event("kill", p, {}))]
              /\ alive' = IF p = 0 THEN [alive EXCEPT ![task[t].loc] = FALSE] ELSE alive
           \/ /\ TreeRaise(t)
              /\ UNCHANGED alive
    /\ UNCHANGED <<scan_sources, visualization_processes, handleVars, np, pAddr, signalled,
                   mainVars>>

\* line 150: del visualization_processes[hostname]
TreeDel(t) ==
    /\ Serving
    /\ task[t].pc = "t_kill"
    /\ task[t].res.surv = {}
    /\ visualization_processes' = [visualization_processes EXCEPT ![task[t].addr] = None]
    /\ task' = [task EXCEPT ![t].pc = "s_stopped",
                            ![t].res.ev = Append(@, Event("del", 0, {}))]
    /\ UNCHANGED <<scan_sources, handleVars, procVars, mainVars>>

\* stop_visualization is dispatched
TreeCall(t) ==
    /\ Serving
    /\ \A u \in Tasks : task[u].pc = "idle"
    /\ calls = 0
    /\ calls' = calls + 1
    /\ \E a \in Addrs :
          task' = [task EXCEPT ![t] = [Idle EXCEPT !.op = "stop_viz", !.addr = a,
                                                   !.pc = FirstPc("stop_viz")]]
    /\ pre' = Snapshot
    /\ UNCHANGED <<scan_sources, visualization_processes, handleVars, procVars,
                   last, psutil, phase, cleanups, cleaned, cause, exitCode>>

\* a server with psutil installed that tracks at least one live visualizer
TreeInit ==
    \E S \in SUBSET Addrs : \E V \in SUBSET S :
        /\ V # {}
        /\ Cardinality(S) <= MaxHandles
        /\ Cardinality(V) <= MaxPids
        /\ Populated(S, V)
        /\ psutil

\* stop_visualization called once, its termination of the process tree taken
\* statement by statement
TreeNext ==
    \/ TreeCall(SerialTask)
    \/ StopCheck(SerialTask)
    \/ TreeEnumerate(SerialTask)
    \/ TreeTerminateChild(SerialTask)
    \/ TreeTerminateParent(SerialTask)
    \/ TreeWait(SerialTask)
    \/ TreeKill(SerialTask)
    \/ TreeDel(SerialTask)
    \/ StopReturn(SerialTask)
    \/ Return(SerialTask)

TreeSpec == TreeInit /\ [][TreeNext]_vars

\* ------------------------------------------------- stream_scans, frame by frame
\* num_scans is any integer of the request
Requests == -1 .. MaxScans

\* what the handle does when iterated: it yields `frames` scans, numbered in
\* order, and then ends or raises
Sources == [frames : 0..MaxFrames, fails : BOOLEAN]

\* locals of stream_scans: i is the index enumerate() hands out next
Stream(n, src) == [n |-> n, src |-> src, i |-> 0, scans_captured |-> 0, scan_stats |-> <<>>]

\* lines 178-186: the registry test, source = scan_sources[hostname], and the
\* first callback
CountCall(t) ==
    /\ Serving
    /\ \A u \in Tasks : task[u].pc = "idle"
    /\ calls = 0
    /\ calls' = calls + 1
    /\ \E a \in Addrs, n \in Requests, src \in Sources :
          LET call == [Idle EXCEPT !.op = "stream", !.addr = a]
          IN  task' = [task EXCEPT ![t] =
                         IF scan_sources[a] = None
                           THEN [call EXCEPT !.pc = "done", !.status = "not_connected"]
                           ELSE [call EXCEPT !.pc = "m_start", !.loc = scan_sources[a],
                                             !.res = Stream(n, src)]]
    /\ pre' = Snapshot
    /\ UNCHANGED <<scan_sources, visualization_processes, handleVars, procVars,
                   last, psutil, phase, cleanups, cleaned, cause, exitCode>>

\* the loop captures every frame the source yields: "if i >= num_scans: break"
\* left out
CountRoundUnbounded(t) ==
    /\ Serving
    /\ task[t].op = "stream"
    /\ task[t].pc \in {"m_start", "m_got"}
    /\ LET r == task[t].res
       IN  IF r.i < r.src.frames
             THEN task' = [task EXCEPT ![t].pc = "m_got", ![t].used = {task[t].loc},
                              ![t].res = [r EXCEPT !.i = r.i + 1,
                                             !.scans_captured = r.scans_captured + 1,
                                             !.scan_stats = Append(r.scan_stats, r.i + 1)]]
             ELSE IF r.src.fails
                    THEN task' = [task EXCEPT ![t].pc = "done", ![t].status = "error",
                                     ![t].err = "stream_error", ![t].used = {task[t].loc}]
                    ELSE task' = [task EXCEPT ![t].pc = "m_end", ![t].used = {task[t].loc}]
    /\ UNCHANGED <<scan_sources, visualization_processes, handleVars, procVars, mainVars>>

\* lines 190-209: one round of "for i, scan in enumerate(source)".  The next
\* scan is fetched first: the source yields it, ends (the loop is left, line
\* 210) or raises (except Exception as stream_error, line 204, which answers
\* error with scans_captured in the message).  With a scan in hand,
\* "if i >= num_scans: break"; otherwise its statistics are appended,
\* scans_captured is incremented and the callbacks of lines 202-203 are
\* awaited.  The division by num_scans at line 201 is reached with
\* i < num_scans only, hence with num_scans >= 1.
CountRound(t) ==
    /\ Serving
    /\ task[t].op = "stream"
    /\ task[t].pc \in {"m_start", "m_got"}
    /\ LET r == task[t].res
       IN  IF r.i < r.src.frames
             THEN IF r.i >= r.n
                    THEN task' = [task EXCEPT ![t].pc = "m_end", ![t].used = {task[t].loc},
                                     ![t].res = [r EXCEPT !.i = r.i + 1]]
                    ELSE task' = [task EXCEPT ![t].pc = "m_got", ![t].used = {task[t].loc},
                                     ![t].res = [r EXCEPT !.i = r.i + 1,
                                                    !.scans_captured = r.scans_captured + 1,
                                                    !.scan_stats = Append(r.scan_stats, r.i + 1)]]
             ELSE IF r.src.fails
                    THEN task' = [task EXCEPT ![t].pc = "done", ![t].status = "error",
                                     ![t].err = "stream_error", ![t].used = {task[t].loc}]
                    ELSE task' = [task EXCEPT ![t].pc = "m_end", ![t].used = {task[t].loc}]
    /\ UNCHANGED <<scan_sources, visualization_processes, handleVars, procVars, mainVars>>

\* lines 210-215: the closing callback and the success record, which carries
\* scans_captured and scan_statistics
CountReturn(t) ==
    /\ Serving
    /\ task[t].op = "stream"
    /\ task[t].pc = "m_end"
    /\ task' = [task EXCEPT ![t].pc = "done", ![t].status = "success"]
    /\ UNCHANGED <<scan_sources, visualization_processes, handleVars, procVars, mainVars>>

\* stream_scans called once in a server that holds any sessions, for any
\* num_scans and any behaviour of the source
CountNext ==
    \/ CountCall(SerialTask)
    \/ CountRound(SerialTask)
    \/ CountReturn(SerialTask)
    \/ Return(SerialTask)

CountSpec == DiscoverInit /\ [][CountNext]_vars

\* ======================================================================
\* Properties
\* ======================================================================
Opened == 1..nh
Spawned == 1..np
Registered == {scan_sources[a] : a \in {x \in Addrs : scan_sources[x] # None}}
\* a finished call whose response has not been handed back yet
Finished(t, op) == Serving /\ Done(t) /\ task[t].op = op

\* C1: connect_sensor calls that overlap on one address open one handle between
\* them: two of them never both hold a handle they opened and nobody closed, and
\* the handle of a call that answered "connected" is in the registry or closed.
C1_ConcurrentConnectOpensOnce ==
    /\ \A t, u \in Tasks :
          (/\ t # u
           /\ InFlight(t) /\ InFlight(u)
           /\ task[t].op = "connect" /\ task[u].op = "connect"
           /\ task[t].addr = task[u].addr)
          => ~(/\ task[t].loc # None /\ hClose[task[t].loc] = 0
               /\ task[u].loc # None /\ hClose[task[u].loc] = 0)
    /\ \A t \in Tasks :
          Finished(t, "connect") /\ task[t].status = "connected"
          => scan_sources[task[t].addr] = task[t].res \/ hClose[task[t].res] > 0

\* C2: in every state each address has at most one live visualizer subprocess
\* spawned by the server.
C2_OneLiveVisualizerPerAddress ==
    \A a \in Addrs : Cardinality({p \in Spawned : alive[p] /\ pAddr[p] = a}) <= 1

\* C3: disconnect_sensor(a) called with a in the registry removes the entry and
\* answers "disconnected", whatever close() does.
C3_DisconnectAlwaysRemoves ==
    \A t \in Tasks :
        Finished(t, "disconnect") /\ pre.ss[task[t].addr] # None
        => task[t].status = "disconnected" /\ scan_sources[task[t].addr] = None

\* C4: stop_visualization(a) called with a live tracked pid leaves no entry for
\* a and does not answer "error", on every path.  ("not_running" is the answer
\* when the process exits by itself before the handler looks at it.)
C4_StopAlwaysRemoves ==
    \A t \in Tasks :
        (/\ Finished(t, "stop_viz")
         /\ pre.vp[task[t].addr] # None
         /\ pre.vp[task[t].addr] \in pre.alive)
        => /\ task[t].status \in {"success", "not_running"}
           /\ visualization_processes[task[t].addr] = None

\* C5: a run of cleanup_resources leaves both registries empty, has called
\* close() on every handle that was registered and has attempted a signal on
\* every pid that was tracked, whichever of those calls raise.
C5_CleanupDrainsBoth ==
    [][cleanups' # cleanups =>
          /\ \A a \in Addrs : scan_sources'[a] = None /\ visualization_processes'[a] = None
          /\ \A h \in Registered : hClose'[h] = Inc(hClose[h])
          /\ \A a \in Tracked : visualization_processes[a] \in signalled']_vars

\* a cleanup that met two sessions and a tracked pid, with a close() that raised
C5_Witness ==
    /\ cleanups = 1
    /\ Cardinality(cleaned.hs) >= 2
    /\ cleaned.fh # {} /\ cleaned.fh # cleaned.hs
    /\ cleaned.ps # {}

\* C6: once cleanup_resources has run, every handle the server opened has had
\* close() called and every live subprocess it spawned has been signalled,
\* those of calls still in flight included.
C6_ShutdownReleasesEverything ==
    cleanups > 0 =>
        /\ \A h \in Opened : hClose[h] > 0
        /\ \A p \in Spawned : alive[p] => p \in signalled

\* C7: close() is called exactly once on every handle that leaves the session
\* registry: never twice, never zero times.  (Stated for the handles whose
\* close() has not raised, so that no second call is a retry.)
C7_CloseExactlyOnce ==
    \A h \in Opened \ hFail :
        /\ hClose[h] <= 1
        /\ (hReg[h] /\ h \notin Registered) => hClose[h] = 1

\* C8: connect_sensor(a) with a already registered answers "already_connected"
\* with the registered session's metadata, opens nothing and leaves the
\* registry as it was.
C8_ConnectIdempotent ==
    \A t \in Tasks :
        Finished(t, "connect") /\ pre.ss[task[t].addr] # None
        => /\ task[t].status = "already_connected"
           /\ task[t].res = pre.ss[task[t].addr]
           /\ scan_sources = pre.ss
           /\ nh = pre.nh

C8_Witness ==
    \E t \in Tasks :
        /\ Finished(t, "connect") /\ pre.ss[task[t].addr] # None
        /\ task[t].status = "already_connected"

\* C9: connect_sensor(a) with a absent, when open_source and the metadata read
\* succeed, opens exactly one handle, maps a to it and answers "connected"
\* with that handle's metadata.
C9_ConnectRegistersNewHandle ==
    \A t \in Tasks :
        (/\ Finished(t, "connect")
         /\ pre.ss[task[t].addr] = None
         /\ task[t].err \notin {"open_source", "metadata"})
        => /\ task[t].status = "connected"
           /\ nh = pre.nh + 1
           /\ scan_sources = [pre.ss EXCEPT ![task[t].addr] = nh]
           /\ task[t].res = nh

C9_Witness ==
    \E t \in Tasks :
        /\ Finished(t, "connect") /\ pre.ss[task[t].addr] = None
        /\ task[t].status = "connected" /\ scan_sources[task[t].addr] = task[t].res

\* C10: a connect_sensor call that answers "error" has added no entry to the
\* session registry, at whichever step it failed.
C10_ConnectErrorLeavesNoEntry ==
    \A t \in Tasks :
        Finished(t, "connect") /\ task[t].status = "error"
        => task[t].loc = None \/ scan_sources[task[t].addr] # task[t].loc

\* C11: disconnect_sensor(a) with a absent answers "not_connected", calls
\* close() on nothing and leaves both registries as they were; and when
\* disconnect_sensor(a) follows a disconnect_sensor(a) that found a registered,
\* the first answered "disconnected", the second answers "not_connected" and
\* the second leaves the registry as the first left it.
C11_DisconnectTwice ==
    \A t \in Tasks :
        Finished(t, "disconnect") =>
            /\ pre.ss[task[t].addr] = None
                 => /\ task[t].status = "not_connected"
                    /\ hClose = pre.hc
                    /\ scan_sources = pre.ss
                    /\ visualization_processes = pre.vp
            /\ (last.op = "disconnect" /\ last.addr = task[t].addr /\ last.had)
                 => /\ last.status = "disconnected"
                    /\ task[t].status = "not_connected"
                    /\ scan_sources = pre.ss

\* C12: start_visualization(a) with no session for a answers "not_connected",
\* spawns nothing and leaves the process registry as it was, whether or not
\* the process registry tracks a pid for a.
C12_StartNeedsSession ==
    \A t \in Tasks :
        Finished(t, "start_viz") /\ pre.ss[task[t].addr] = None
        => /\ task[t].status = "not_connected"
           /\ np = pre.np
           /\ visualization_processes = pre.vp

\* a start answered for an address that has a tracked pid and no session
C12_Witness ==
    \E t \in Tasks :
        /\ Finished(t, "start_viz") /\ pre.ss[task[t].addr] = None
        /\ pre.vp[task[t].addr] # None
        /\ task[t].status = "not_connected"

\* C13: every step of start_visualization(a) that spawns the subprocess, and
\* every step that records its pid, is taken in a state where a has a session,
\* whatever other calls run between the session check and that step.
C13_SpawnOnlyWithSession ==
    [][\A t \in Tasks :
          (\/ task[t].pc = "v_prespawn" /\ task'[t].pc = "v_settle"
           \/ task[t].pc = "v_settle" /\ task'[t].pc = "v_stored")
          => scan_sources[task[t].addr] # None]_vars

\* C14: start_visualization(a) called while a has a session and a tracked pid
\* that is alive (and stays alive) answers "already_running" with that pid,
\* spawns nothing and leaves the process registry as it was.
C14_StartAlreadyRunning ==
    \A t \in Tasks :
        (/\ Finished(t, "start_viz")
         /\ pre.ss[task[t].addr] # None
         /\ pre.vp[task[t].addr] # None
         /\ alive[pre.vp[task[t].addr]])
        => /\ task[t].status = "already_running"
           /\ task[t].res = pre.vp[task[t].addr]
           /\ np = pre.np
           /\ visualization_processes = pre.vp

\* C15: start_visualization(a) called while a has a session and a tracked pid
\* that is not alive does not answer "already_running" and does not leave the
\* stale pid tracked; unless the spawn fails or the child has exited at the
\* poll, it spawns one subprocess, answers "success" with the new pid and the
\* registry maps a to the new pid.
C15_StartReplacesStale ==
    \A t \in Tasks :
        (/\ Finished(t, "start_viz")
         /\ pre.ss[task[t].addr] # None
         /\ pre.vp[task[t].addr] # None
         /\ pre.vp[task[t].addr] \notin pre.alive)
        => /\ task[t].status # "already_running"
           /\ visualization_processes[task[t].addr] # pre.vp[task[t].addr]
           /\ task[t].err \notin {"Popen", "exited"}
                => /\ task[t].status = "success"
                   /\ np = pre.np + 1
                   /\ task[t].res = np
                   /\ visualization_processes[task[t].addr] = np

\* the addresses a list_visualizations result has an entry for
Listed(t) == {e[1] : e \in task[t].lst}

\* C16: with psutil, when list_visualizations has returned, every address
\* whose tracked pid was dead has left the registry and the result, every
\* address whose tracked pid was alive (and still is) is in the result with
\* that pid, and total_count is the number of entries.
C16_ListSweepsDeadOnly ==
    \A t \in Tasks :
        Finished(t, "list_viz") /\ psutil
        => /\ task[t].status = "success"
           /\ task[t].res = Cardinality(task[t].lst)
           /\ \A a \in Addrs :
                 /\ (pre.vp[a] # None /\ pre.vp[a] \notin pre.alive)
                      => visualization_processes[a] = None /\ a \notin Listed(t)
                 /\ (pre.vp[a] # None /\ alive[pre.vp[a]])
                      => \E e \in task[t].lst : e[1] = a /\ e[2] = pre.vp[a]

\* C17: without psutil, list_visualizations answers "success" with one entry
\* of status "unknown" for every tracked address, carrying its pid, removes
\* nothing from the process registry and counts the entries.
C17_ListWithoutPsutil ==
    \A t \in Tasks :
        Finished(t, "list_viz") /\ ~psutil
        => /\ task[t].status = "success"
           /\ task[t].lst = {<<a, pre.vp[a], "unknown">> : a \in {x \in Addrs : pre.vp[x] # None}}
           /\ task[t].res = Cardinality(task[t].lst)
           /\ visualization_processes = pre.vp

\* a listing without psutil of a registry that tracks a dead pid
C17_Witness ==
    \E t \in Tasks :
        /\ Finished(t, "list_viz") /\ ~psutil
        /\ task[t].status = "success"
        /\ \E e \in task[t].lst : ~alive[e[2]] /\ e[3] = "unknown"

\* C18: stop_visualization(a) called while a is untracked, or tracked with a
\* pid that is not alive, answers "not_running" and attempts no signal on any
\* pid; in the first case the process registry is unchanged, in the second
\* the stale entry, and nothing else, is removed.
C18_StopNotRunning ==
    \A t \in Tasks :
        (/\ Finished(t, "stop_viz")
         /\ pre.vp[task[t].addr] = None \/ pre.vp[task[t].addr] \notin pre.alive)
        => /\ task[t].status = "not_running"
           /\ signalled = pre.sig
           /\ visualization_processes = [pre.vp EXCEPT ![task[t].addr] = None]

\* C19: a start_visualization(a) whose spawn failed, or whose child had exited
\* at the poll, answers "error" and no pid spawned by it is in the process
\* registry; one that answers "success" has spawned one child, carries its pid
\* and a maps to it; and a pid is written to the process registry only in a
\* step that finds its process running.
C19_StartRecordsOnlySurvivor ==
    /\ [](\A t \in Tasks :
            Finished(t, "start_viz") =>
               /\ task[t].err \in {"Popen", "exited"}
                    => /\ task[t].status = "error"
                       /\ \A a \in Addrs : visualization_processes[a] \notin (pre.np + 1)..np
               /\ task[t].status = "success"
                    => /\ np = pre.np + 1
                       /\ task[t].res = np
                       /\ visualization_processes[task[t].addr] = np)
    /\ [][\A a \in Addrs :
             (visualization_processes'[a] # None
              /\ visualization_processes'[a] # visualization_processes[a])
             => alive[visualization_processes'[a]]]_vars

\* a start whose child had exited at the poll, answered with nothing recorded
C19_Witness ==
    \E t \in Tasks :
        /\ Finished(t, "start_viz")
        /\ task[t].err = "exited" /\ task[t].status = "error"
        /\ np = pre.np + 1 /\ ~alive[np]
        /\ visualization_processes[task[t].addr] # np

\* the status tags found in the return statements of each handler
Statuses(op) ==
    CASE op = "connect" -> {"connected", "already_connected", "error"}
      [] op = "disconnect" -> {"disconnected", "not_connected", "error"}
      [] op = "start_viz" -> {"success", "already_running", "not_connected", "error"}
      [] op = "stop_viz" -> {"success", "not_running", "error"}
      [] op = "list_viz" -> {"success", "error"}

\* C20: every call that ends, ends with a result record whose status is one of
\* the tags of its handler, whatever the SDK, the subprocess calls and the ctx
\* callbacks do, those awaited in the handler's except blocks included: no
\* exception leaves a handler.
C20_AlwaysStructuredResult ==
    \A t \in Tasks : Done(t) => task[t].status \in Statuses(task[t].op)

NoSessions == \A a \in Addrs : scan_sources[a] = None
NoVisualizers == \A a \in Addrs : visualization_processes[a] = None

\* C21: a run of cleanup_resources that finds both registries empty calls
\* close() on no handle, attempts no signal and leaves both registries empty;
\* and every run after the first finds them empty, so that all the runs
\* together close each handle and signal each tracked pid at most once.
C21_CleanupIdempotent ==
    [][cleanups' # cleanups =>
          /\ cleanups > 0 => NoSessions /\ NoVisualizers
          /\ (NoSessions /\ NoVisualizers)
               => /\ hClose' = hClose
                  /\ hFail' = hFail
                  /\ signalled' = signalled
                  /\ scan_sources' = scan_sources
                  /\ visualization_processes' = visualization_processes]_vars

\* three runs of cleanup_resources, the first of which closed a handle and
\* signalled a pid
C21_Witness ==
    /\ cleanups = 3
    /\ cleaned.hs = {} /\ cleaned.ps = {}
    /\ \E h \in Opened : hReg[h] /\ hClose[h] = 1
    /\ signalled # {}

\* C22: when no termination signal was handled by signal_handler (the run
\* call returned or was interrupted), cleanup_resources is executed at most
\* once in the process lifetime, counting main's except blocks, main's
\* finally block and the exit hook.
C22_CleanupAtMostOnce ==
    cause # "signal" => cleanups <= 1

\* C23: the process exits with code 1 when the run call raised an unexpected
\* exception and with code 0 when it returned, was interrupted or a handled
\* signal ended it.
C23_ExitCode ==
    phase = "exited" => exitCode = (IF cause = "failed" THEN 1 ELSE 0)

\* C27: a scan or point-cloud operation called for an address with no session
\* answers not_connected and has used no handle; and from its dispatch to its
\* answer, whatever the answer, both registries stay as the call found them
\* (and no handle is opened or closed).
C27_ScanReadOnly ==
    \A t \in Tasks :
        (Serving /\ task[t].op \in ScanOps) =>
            /\ scan_sources = pre.ss
            /\ visualization_processes = pre.vp
            /\ nh = pre.nh
            /\ hClose = pre.hc
            /\ (pre.ss[task[t].addr] = None) =>
                   /\ Done(t)
                   /\ task[t].status = "not_connected"
                   /\ task[t].used = {}
            /\ (Done(t) /\ pre.ss[task[t].addr] # None) =>
                   /\ task[t].status \in {"success", "warning", "error"}
                   /\ task[t].used = {pre.ss[task[t].addr]}

\* a scan operation answered not_connected for one address while another
\* address has a session
C27_Witness ==
    \E t \in Tasks :
        /\ Finished(t, task[t].op)
        /\ task[t].op \in ScanOps
        /\ task[t].status = "not_connected"
        /\ \E b \in Addrs : scan_sources[b] # None

C29_SensorsListed ==
    \A t \in Tasks :
        Finished(t, "list_sensors") =>
            LET keys == {a \in Addrs : pre.ss[a] # None}
            IN  /\ task[t].status = "success"
                /\ Len(task[t].res) = Cardinality(keys)
                /\ {task[t].res[i] : i \in 1..Len(task[t].res)}
                      = {[hostname |-> a, meta |-> pre.ss[a]] : a \in keys}
                /\ scan_sources = pre.ss

\* get_connected_sensors answered with two summaries
C29_Witness ==
    \E t \in Tasks : Finished(t, "list_sensors") /\ Len(task[t].res) = 2

\* C30: get_sensor_info(a) answers success with the metadata of the handle
\* registered for a when the call found one, and not_connected when it found
\* none; the registry is as it was and no handle was opened or closed.
C30_SensorInfo ==
    \A t \in Tasks :
        Finished(t, "get_info") =>
            LET h == pre.ss[task[t].addr]
            IN  /\ h # None => task[t].status = "success" /\ task[t].res = h
                /\ h = None => task[t].status = "not_connected"
                /\ scan_sources = pre.ss
                /\ nh = pre.nh
                /\ hClose = pre.hc

\* get_sensor_info answered success for a registered address
C30_Witness ==
    \E t \in Tasks :
        /\ Finished(t, "get_info")
        /\ task[t].status = "success"
        /\ scan_sources[task[t].addr] = task[t].res

\* the addresses a discovery record gives for its device
RecordAddrs(rec) == {rec.hostname, rec.ip} \cap Addrs

\* C24: every record of a successful discover_sensors answer says "connected"
\* when the session registry held, at the call, a session under an address of
\* the record's device (its hostname or its IP), and "discovered" otherwise;
\* both registries are as the call found them.
C24_DiscoverAnnotates ==
    \A t \in Tasks :
        (Finished(t, "discover") /\ task[t].status = "success") =>
            /\ \A i \in 1..Len(task[t].res.sensors) :
                  LET rec == task[t].res.sensors[i]
                  IN  rec.connection_status
                         = (IF \E a \in RecordAddrs(rec) : pre.ss[a] # None
                            THEN "connected" ELSE "discovered")
            /\ scan_sources = pre.ss
            /\ visualization_processes = pre.vp

\* C25: when the discovery command exits with code 0, discover_sensors
\* answers success: an output that is not a list of records goes to the
\* line-oriented parse, which extracts what records it finds.
C25_DiscoverFallback ==
    \A t \in Tasks :
        (Finished(t, "discover")
            /\ task[t].loc.kind \in {"blank", "list", "object", "scalar", "text"})
          => /\ task[t].status = "success"
             /\ task[t].res.listed

\* C26: a discovery command that times out is answered error with the timeout
\* message, one that exits with a nonzero code is answered error with the
\* captured stderr; neither answer holds a sensors list, and both registries
\* are as the call found them.
C26_DiscoverCommandFails ==
    \A t \in Tasks :
        (Finished(t, "discover") /\ task[t].loc.kind \in {"timeout", "nonzero"}) =>
            /\ task[t].status = "error"
            /\ task[t].err = (IF task[t].loc.kind = "timeout" THEN "timeout" ELSE "stderr")
            /\ ~task[t].res.listed
            /\ scan_sources = pre.ss
            /\ visualization_processes = pre.vp

\* the command timed out in a server that holds a session and a visualizer
C26_Witness ==
    \E t \in Tasks :
        /\ Finished(t, "discover")
        /\ task[t].loc.kind = "timeout"
        /\ task[t].err = "timeout"
        /\ \E a \in Addrs : scan_sources[a] # None /\ visualization_processes[a] # None

\* C31: in the end-to-end run the six calls are answered, in order: connected,
\* with one session registered; success with the pid P of the one visualizer
\* spawned; a listing of exactly one entry, for a, with pid P; success; an
\* empty listing; disconnected, with both registries empty.
C31_EndToEnd ==
    \A t \in Tasks :
        (Serving /\ Done(t)) =>
            LET a == task[t].addr
            IN  CASE calls = 1 ->
                       /\ task[t].status = "connected"
                       /\ Cardinality({b \in Addrs : scan_sources[b] # None}) = 1
                  [] calls = 2 ->
                       /\ task[t].status = "success"
                       /\ task[t].res \in Spawned
                       /\ np = 1
                       /\ visualization_processes[a] = task[t].res
                  [] calls = 3 ->
                       /\ task[t].status = "success"
                       /\ \E b \in Addrs :
                             /\ scan_sources[b] # None
                             /\ Listed(t) = {b}
                             /\ \E e \in task[t].lst :
                                   /\ task[t].lst = {e}
                                   /\ e[2] = np
                                   /\ pAddr[e[2]] = b
                  [] calls = 4 ->
                       /\ task[t].status = "success"
                       /\ NoVisualizers
                       /\ ~alive[np]
                  [] calls = 5 ->
                       /\ task[t].status = "success"
                       /\ task[t].lst = {}
                       /\ task[t].res = 0
                  [] calls = 6 ->
                       /\ task[t].status = "disconnected"
                       /\ NoSessions
                       /\ NoVisualizers
                  [] OTHER -> FALSE

\* the sixth call of the run has been answered
C31_Witness ==
    \E t \in Tasks :
        /\ Finished(t, "disconnect")
        /\ calls = Len(Scenario)
        /\ task[t].status = "disconnected"
        /\ np = 1 /\ ~alive[np]

\* positions of the events of a kind in a trace
At(ev, kind) == {i \in 1..Len(ev) : ev[i].kind = kind}

\* C32: when stop_visualization terminates a live process with psutil, the
\* children are enumerated first; every child gets the termination signal
\* before the parent does; the wait follows the parent's signal; a kill goes
\* only, and after the wait, to a process the wait found alive; and the entry
\* is deleted last, after every survivor was killed.
C32_StopOrder ==
    \A t \in Tasks :
        (Serving /\ task[t].pc \in {"t_children", "t_wait", "t_kill", "s_stopped", "s_except"}) =>
            LET r == task[t].res
                ev == r.ev
                a == task[t].addr
            IN  /\ ev # <<>> => ev[1].kind = "enum"
                /\ At(ev, "enum") \subseteq {1}
                /\ \A i \in At(ev, "term") :
                      IF ev[i].proc = 0
                      THEN {ev[j].proc : j \in 1..(i - 1)} \ {0} = 1..r.n
                      ELSE \A j \in At(ev, "term") : ev[j].proc = 0 => i < j
                /\ \A i \in At(ev, "wait") :
                      /\ \E j \in 1..(i - 1) : ev[j].kind = "term" /\ ev[j].proc = 0
                      /\ \A j \in At(ev, "term") : j < i
                /\ \A i \in At(ev, "kill") :
                      \E j \in At(ev, "wait") : j < i /\ ev[i].proc \in ev[j].surv
                /\ \A i \in At(ev, "del") :
                      /\ i = Len(ev)
                      /\ \E j \in At(ev, "wait") :
                            ev[j].surv = {ev[k].proc : k \in At(ev, "kill")}
                /\ (visualization_processes[a] = None) <=> (At(ev, "del") # {})

\* a tree of two processes or more was stopped and a survivor of the wait
\* was killed before the entry was deleted
C32_Witness ==
    \E t \in Tasks :
        /\ Serving
        /\ task[t].pc = "s_stopped"
        /\ task[t].res.n >= 1
        /\ At(task[t].res.ev, "kill") # {}
        /\ At(task[t].res.ev, "del") # {}

\* a step that inserts into a registry is taken by a call that holds the
\* resource: a handle that was opened and whose metadata was read, a
\* subprocess that was spawned and is running at the poll
InsertsAcquired ==
    /\ \A a \in Addrs :
          (scan_sources'[a] # None /\ scan_sources'[a] # scan_sources[a])
          => /\ scan_sources'[a] \in Opened
             /\ \E t \in Tasks : /\ task[t].op = "connect"
                                 /\ task[t].addr = a
                                 /\ task[t].pc = "c_meta"
                                 /\ task[t].loc = scan_sources'[a]
    /\ \A a \in Addrs :
          (visualization_processes'[a] # None
           /\ visualization_processes'[a] # visualization_processes[a])
          => /\ visualization_processes'[a] \in Spawned
             /\ alive[visualization_processes'[a]]
             /\ \E t \in Tasks : /\ task[t].op = "start_viz"
                                 /\ task[t].addr = a
                                 /\ task[t].pc = "v_settle"
                                 /\ task[t].loc = visualization_processes'[a]

\* the call failed before it acquired its resource
FailedBefore(t) ==
    \/ Finished(t, "connect") /\ task[t].err \in {"open_source", "metadata"}
    \/ Finished(t, "start_viz") /\ task[t].err \in {"Popen", "exited"}

\* C33 as stated: a registry insertion is made only by a call that holds its
\* resource (handle opened and metadata read; subprocess spawned and past the
\* settle check), and a call that failed before that point has left both
\* registries as it found them.
C33_InsertAfterAcquisition ==
    /\ [](\A t \in Tasks :
            FailedBefore(t) => /\ scan_sources = pre.ss
                               /\ visualization_processes = pre.vp)
    /\ [][InsertsAcquired]_vars

\* C33 amended: a registry insertion is made only by a call that holds its
\* resource, and a call that failed before that point has inserted nothing:
\* the session registry is as it found it, and the process registry differs at
\* most by the entry of its own address, purged because its pid was dead.
C33_InsertAfterAcquisitionAmended ==
    /\ [](\A t \in Tasks :
            FailedBefore(t) =>
               /\ scan_sources = pre.ss
               /\ \A a \in Addrs :
                     \/ visualization_processes[a] = pre.vp[a]
                     \/ /\ visualization_processes[a] = None
                        /\ a = task[t].addr
                        /\ task[t].op = "start_viz"
                        /\ pre.vp[a] # None
                        /\ ~alive[pre.vp[a]])
    /\ [][InsertsAcquired]_vars

\* a start_visualization purged the stale entry of its address and then
\* failed to spawn
C33_Witness ==
    \E t \in Tasks :
        /\ Finished(t, "start_viz")
        /\ task[t].err = "Popen"
        /\ pre.vp[task[t].addr] # None
        /\ visualization_processes[task[t].addr] = None

\* C34: list_visualizations removes an entry only if its pid is not alive: an
\* entry whose process is alive when the call is answered is still tracked.
C34_ListKeepsLive ==
    \A t \in Tasks :
        Finished(t, "list_viz") =>
            \A a \in Addrs :
                (pre.vp[a] # None /\ alive[pre.vp[a]])
                => visualization_processes[a] = pre.vp[a]

\* C35: when a connect_sensor or start_visualization call has failed or was
\* aborted after it acquired its resource, the handle it opened is registered
\* or has been closed, and the subprocess it spawned is tracked, has been
\* signalled or has exited.
C35_NoOrphanAfterFailure ==
    \A t \in Tasks :
        (Serving /\ Done(t) /\ task[t].status \in {"error", "raised"}
                 /\ task[t].loc # None) =>
            /\ task[t].op = "connect"
                  => task[t].loc \in Registered \/ hClose[task[t].loc] > 0
            /\ task[t].op = "start_viz"
                  => \/ ~alive[task[t].loc]
                     \/ task[t].loc \in signalled
                     \/ \E a \in Addrs : visualization_processes[a] = task[t].loc

\* the step iterates the handle of call t: iter/next of a scan operation after
\* its first callbacks, or a further round of the loop of stream_scans
Iterates(t) ==
    /\ task[t].op \in ScanOps
    /\ \/ task[t].pc = "k_start"
       \/ task[t].op = "stream" /\ task[t].pc = "k_got"
    /\ task'[t] # task[t]

\* C36: no scan operation iterates a handle on which close() has been called.
C36_NoReadAfterClose ==
    [][\A t \in Tasks : Iterates(t) => hClose[task[t].loc] = 0]_vars

\* C37: every address of the process registry has a session in the session
\* registry.
C37_TrackedHasSession ==
    \A a \in Addrs : visualization_processes[a] # None => scan_sources[a] # None

Min(x, y) == IF x <= y THEN x ELSE y
Max(x, y) == IF x >= y THEN x ELSE y
\* the source raises at a fetch that the loop asking for n scans makes: it
\* yields no more than n frames (the loop fetches one scan more than it keeps)
FailsInLoop(r) == r.src.fails /\ r.src.frames <= Max(r.n, 0)

\* the answer of a stream_scans call that asked for n scans and is due `due`
StreamAnswer(t, due) ==
    LET r == task[t].res
    IN  /\ r.scans_captured = due
        /\ r.scan_stats = [j \in 1..due |-> j]
        /\ task[t].status = IF FailsInLoop(r) THEN "error" ELSE "success"
        /\ task[t].status = "error" => task[t].err = "stream_error"

\* C38 (as stated): stream_scans(a, n) on a connected address answers success
\* with scans_captured = min(n, frames the source yields) and the statistics of
\* exactly these frames in order, never more than n, and answers error with the
\* count captured so far when the iteration fails.
C38_StreamCount ==
    \A t \in Tasks :
        (Finished(t, "stream") /\ task[t].status # "not_connected")
        => /\ StreamAnswer(t, Min(task[t].res.n, task[t].res.src.frames))
           /\ task[t].res.scans_captured <= task[t].res.n

\* C38 (amended): the same with a negative n counted as zero: scans_captured
\* = min(max(n, 0), frames), never more than max(n, 0).
C38_StreamCountAmended ==
    \A t \in Tasks :
        (Finished(t, "stream") /\ task[t].status # "not_connected")
        => /\ StreamAnswer(t, Min(Max(task[t].res.n, 0), task[t].res.src.frames))
           /\ task[t].res.scans_captured <= Max(task[t].res.n, 0)

\* a stream that was cut at n scans by a source with more frames
C38_Witness ==
    \E t \in Tasks :
        /\ Finished(t, "stream") /\ task[t].status = "success"
        /\ task[t].res.n >= 1 /\ task[t].res.src.frames > task[t].res.n
        /\ task[t].res.scans_captured = task[t].res.n

\* the sensor-marker lines of a text, and the j-th of them
Markers(ls) == {k \in 1..Len(ls) : ls[k].tag = "sensor"}
Marker(ls, j) == CHOOSE k \in Markers(ls) : Cardinality({m \in Markers(ls) : m <= k}) = j
\* the "i: <value>" lines below the j-th marker line and above the next one
IpLines(ls, j) ==
    {k \in 1..Len(ls) : /\ ls[k].tag = "field" /\ Key(ls[k].key) = "ip"
                        /\ k > Marker(ls, j)
                        /\ \A m \in Markers(ls) : m <= Marker(ls, j) \/ m > k}
\* the ip of the j-th record: the last value given for it, or unknown (None)
IpOf(ls, j) ==
    IF IpLines(ls, j) = {} THEN None
    ELSE ls[CHOOSE k \in IpLines(ls, j) : \A m \in IpLines(ls, j) : m <= k].val

\* C39: the line-oriented parse returns one record per sensor-marker line, in
\* input order; a "key: value" line belongs to the record of the most recent
\* marker line above it ("i" stored as "ip"), and a field no line gives is
\* reported unknown.
C39_RecordPerMarker ==
    \A t \in Tasks :
        (Finished(t, "discover") /\ task[t].loc.kind = "text") =>
            LET ls == task[t].loc.lines
                recs == task[t].res.sensors
            IN  /\ Len(recs) = Cardinality(Markers(ls))
                /\ \A j \in 1..Len(recs) :
                      /\ recs[j].hostname = ls[Marker(ls, j)].val
                      /\ recs[j].ip = IpOf(ls, j)
====
